---- MODULE Spec2Model ----
(***************************************************************************)
(* Relationship state machine of the healthcare-record backend:            *)
(* DoctorRequest (doctor -> patient), DoctorReceptionAgent (doctor ->      *)
(* reception agent) and AppointmentInvitation (patient -> doctor), with    *)
(* the MedicalRecord and Notification documents their handlers write.      *)
(*                                                                         *)
(* Every route handler is an async function.  Between two awaited store    *)
(* operations other requests run, so a handler is a sequence of steps, one *)
(* per awaited operation on a shared collection.  Synchronous code (role   *)
(* middleware, body validation) and reads of a user's name for a message   *)
(* belong to the step that follows them.  The User collection is written   *)
(* by the routes of /api/auth only.                                        *)
(***************************************************************************)
EXTENDS Integers, Sequences, FiniteSets, Bags, TLC

\* Number of HTTP requests handled in one behaviour.
MaxCalls == 2

Calls == 1..MaxCalls

Doctors == {"d1", "d2"}
Patients == {"p1", "p2"}
Agents == {"a1", "a2"}
Admins == {"adm"}
Users == Doctors \cup Patients \cup Agents \cup Admins

\* User.role
Role(u) ==
  IF u \in Doctors THEN "Doctor"
  ELSE IF u \in Patients THEN "Patient"
  ELSE IF u \in Agents THEN "Reception Agent"
  ELSE "Admin"

\* A request field, or a verification code, that is not there.
Missing == ""

\* The pre-save hook of the User schema stores password as a hash, and
\* user.comparePassword(candidate) compares the candidate's hash with it.
Hashed(password) == <<"hash", password>>

\* A User document: email, stored password, isVerified, verificationCode.
Account(email, password, isVerified, code) ==
  [email |-> email, password |-> Hashed(password), isVerified |-> isVerified,
   code |-> code]

\* The verified accounts of the users of the other routes.
Accounts == {Account(u, "secret1", TRUE, Missing) : u \in Users}

Statuses == {"pending", "accepted", "rejected"}
Decisions == {"accepted", "rejected"}

\* An _id no document has.
NoId == 0
NoUser == "none"
\* The version key of a document that is not stored.
NoVersion == -1
\* The body, or the loaded assessment, of a request that has none.
NoData == <<>>

VARIABLES
  doctorRequests,          \* collection DoctorRequest
  doctorReceptionAgents,   \* collection DoctorReceptionAgent
  nextAgentLinkId,         \* next fresh _id of a DoctorReceptionAgent
  appointmentInvitations,  \* collection AppointmentInvitation
  medicalRecords,          \* collection MedicalRecord
  nextEntryId,             \* next fresh _id of a sub-entry of a MedicalRecord
  healthAssessments,       \* collection HealthAssessment
  notifications,           \* collection Notification, a bag of documents
  users,                   \* collection User: the accounts
  calls                    \* the requests: parameters, position, response

store == <<doctorRequests, doctorReceptionAgents, nextAgentLinkId,
           appointmentInvitations, medicalRecords, nextEntryId, healthAssessments,
           notifications, users>>
vars == <<doctorRequests, doctorReceptionAgents, nextAgentLinkId,
          appointmentInvitations, medicalRecords, nextEntryId, healthAssessments,
          notifications, users, calls>>

----------------------------------------------------------------------------
\* Requests

IdleCall ==
  [op |-> "none", pc |-> "idle", actor |-> NoUser, target |-> NoUser,
   id |-> NoId, decision |-> "none", doc |-> NoId, seen |-> "none", res |-> 0,
   kind |-> "none", via |-> NoUser, doctors |-> {}, ver |-> NoVersion,
   body |-> NoData, predictions |-> NoData, loaded |-> NoData,
   mail |-> "none", token |-> NoUser]

\* A request as the router hands it to the handler.
NewCall(op, actor, target, id, decision) ==
  [op |-> op, pc |-> "start", actor |-> actor, target |-> target,
   id |-> id, decision |-> decision, doc |-> NoId, seen |-> "none", res |-> 0,
   kind |-> "none", via |-> NoUser, doctors |-> {}, ver |-> NoVersion,
   body |-> NoData, predictions |-> NoData, loaded |-> NoData,
   mail |-> "none", token |-> NoUser]

\* res.status(code).json(...): the handler returns.
Respond(c, code) ==
  [c EXCEPT !.pc = "done", !.res = code, !.doc = NoId, !.seen = "none",
            !.doctors = {}, !.ver = NoVersion, !.loaded = NoData]

\* The handler awaits its next store operation.
Goto(c, pc) == [c EXCEPT !.pc = pc]

\* The handler holds the document r that a findOne returned: its _id and the
\* status it had when it was read.
Load(c, r) == [c EXCEPT !.doc = r.id, !.seen = r.status]

\* Requests are numbered in the order in which they arrive.
CanStart(k) ==
  /\ calls[k].pc = "idle"
  /\ \A j \in Calls : j < k => calls[j].pc # "idle"

\* The number the next request to arrive gets, if one is left.
Arriving == {k \in Calls : CanStart(k)}

----------------------------------------------------------------------------
\* Store operations

\* Model.findOne: some matching document, or none.
FindOne(matching) ==
  IF matching # {} THEN {CHOOSE r \in matching : TRUE} ELSE {}

\* document.save() of a loaded document whose status was assigned:
\* updateOne({_id}, {$set: {status}}).
SetStatus(coll, id, status) ==
  {IF r.id = id THEN [r EXCEPT !.status = status] ELSE r : r \in coll}

HasId(coll, id) == \E r \in coll : r.id = id

\* The collection without its unique index.
DoctorRequestIndexAllows_NoIndex(d, p) == TRUE

\* doctorRequestSchema.index({doctor, patient}, {unique: true})
DoctorRequestIndexAllows(d, p) ==
  ~\E r \in doctorRequests : r.doctor = d /\ r.patient = p

\* The five sub-collections of a MedicalRecord.
Kinds == {"appointments", "prescriptions", "diseases", "comments", "diagnostics"}

\* new MedicalRecord({patient}): empty sub-collections, version key __v 0.
NewRecord(p) ==
  [patient |-> p, v |-> 0, appointments |-> <<>>, prescriptions |-> <<>>,
   diseases |-> <<>>, comments |-> <<>>, diagnostics |-> <<>>]

\* The sub-collections of a stored record.
Entries(m) == [kind \in Kinds |-> m[kind]]

\* The collection without its unique index.
MedicalRecordIndexAllows_NoIndex(p) == TRUE

\* medicalRecordSchema: patient unique
MedicalRecordIndexAllows(p) ==
  ~\E m \in medicalRecords : m.patient = p

\* A fresh ObjectId for a DoctorRequest; documents of this collection are
\* never deleted.
NewRequestId == Cardinality(doctorRequests) + 1

\* createNotification: a Notification document is saved.
Notify(type, recipient, sender) ==
  notifications' = notifications (+)
    SetToBag({[type |-> type, recipient |-> recipient, sender |-> sender]})

----------------------------------------------------------------------------
\* POST /api/doctor/request/send

\* A resend test that lets a pending record through.
MayResend_NotAccepted(status) == status # "accepted"

\* A resend test that lets an accepted record through.
MayResend_NotPending(status) == status # "pending"

\* existingRequest.status === 'rejected', existingInvitation.status === 'rejected'
MayResend(status) == status = "rejected"

SendRequestFind(k, u, t) ==
  /\ CanStart(k)
  /\ LET c == NewCall("sendRequest", u, t, NoId, "none")
         ex == FindOne({r \in doctorRequests : r.doctor = u /\ r.patient = t})
     IN calls' = [calls EXCEPT ![k] =
          IF Role(u) # "Doctor" THEN Respond(c, 403)
          ELSE IF t = NoUser THEN Respond(c, 400)
          ELSE IF t \notin Patients THEN Respond(c, 404)
          ELSE IF ex = {} THEN Goto(c, "insert")
          ELSE LET r == CHOOSE r \in ex : TRUE IN
               IF MayResend(r.status) THEN Load(Goto(c, "resend"), r)
               ELSE Respond(c, 400)]
  /\ UNCHANGED store

SendRequestResend(k) ==
  /\ calls[k].op = "sendRequest" /\ calls[k].pc = "resend"
  /\ doctorRequests' = SetStatus(doctorRequests, calls[k].doc, "pending")
  /\ calls' = [calls EXCEPT ![k] = Goto(@, "notifyResent")]
  /\ UNCHANGED <<doctorReceptionAgents, nextAgentLinkId, appointmentInvitations,
                 medicalRecords, nextEntryId, healthAssessments, notifications, users>>

SendRequestInsert(k) ==
  /\ calls[k].op = "sendRequest" /\ calls[k].pc = "insert"
  /\ IF DoctorRequestIndexAllows(calls[k].actor, calls[k].target)
     THEN /\ doctorRequests' = doctorRequests \cup
               {[id |-> NewRequestId, doctor |-> calls[k].actor,
                 patient |-> calls[k].target, status |-> "pending"]}
          /\ calls' = [calls EXCEPT ![k] = [Goto(@, "notifySent") EXCEPT !.doc = NewRequestId]]
     ELSE /\ calls' = [calls EXCEPT ![k] = Respond(@, 500)]
          /\ UNCHANGED doctorRequests
  /\ UNCHANGED <<doctorReceptionAgents, nextAgentLinkId, appointmentInvitations,
                 medicalRecords, nextEntryId, healthAssessments, notifications, users>>

SendRequestNotify(k) ==
  /\ calls[k].op = "sendRequest" /\ calls[k].pc \in {"notifyResent", "notifySent"}
  /\ Notify("doctor_request", calls[k].target, calls[k].actor)
  /\ calls' = [calls EXCEPT ![k] =
       Respond(@, IF calls[k].pc = "notifyResent" THEN 200 ELSE 201)]
  /\ UNCHANGED <<doctorRequests, doctorReceptionAgents, nextAgentLinkId,
                 appointmentInvitations, medicalRecords, nextEntryId, healthAssessments, users>>

----------------------------------------------------------------------------
\* PUT /api/doctor/request/:requestId

\* The handler without its "ensure medical record exists" block.
RespondRequestFindRecord_NoCreate(k) ==
  /\ calls[k].op = "respondRequest" /\ calls[k].pc = "findRecord"
  /\ calls' = [calls EXCEPT ![k] = Respond(@, 200)]
  /\ UNCHANGED store

\* The filter without status: 'pending'.
RespondRequestFilter_AnyStatus(r, id, u) ==
  r.id = id /\ r.patient = u

\* The filter without patient: req.user.userId.
RespondRequestFilter_AnyPatient(r, id, u) ==
  r.id = id /\ r.status = "pending"

\* The filter of DoctorRequest.findOne in the handler.
RespondRequestFilter(r, id, u) ==
  r.id = id /\ r.patient = u /\ r.status = "pending"

RespondRequestFind(k, u, id, s) ==
  /\ CanStart(k)
  /\ LET c == NewCall("respondRequest", u, NoUser, id, s)
         found == FindOne({r \in doctorRequests : RespondRequestFilter(r, id, u)})
     IN calls' = [calls EXCEPT ![k] =
          IF Role(u) # "Patient" THEN Respond(c, 403)
          ELSE IF s \notin Decisions THEN Respond(c, 400)
          ELSE IF found = {} THEN Respond(c, 404)
          ELSE LET r == CHOOSE r \in found : TRUE IN
               [Load(Goto(c, "save"), r) EXCEPT !.target = r.doctor]]
  /\ UNCHANGED store

RespondRequestSave(k) ==
  /\ calls[k].op = "respondRequest" /\ calls[k].pc = "save"
  /\ doctorRequests' = SetStatus(doctorRequests, calls[k].doc, calls[k].decision)
  /\ calls' = [calls EXCEPT ![k] = Goto(@, "notify")]
  /\ UNCHANGED <<doctorReceptionAgents, nextAgentLinkId, appointmentInvitations,
                 medicalRecords, nextEntryId, healthAssessments, notifications, users>>

RespondRequestNotify(k) ==
  /\ calls[k].op = "respondRequest" /\ calls[k].pc = "notify"
  /\ Notify(IF calls[k].decision = "accepted" THEN "request_accepted" ELSE "request_rejected",
            calls[k].target, calls[k].actor)
  /\ calls' = [calls EXCEPT ![k] =
       IF calls[k].decision = "accepted" THEN Goto(@, "findRecord") ELSE Respond(@, 200)]
  /\ UNCHANGED <<doctorRequests, doctorReceptionAgents, nextAgentLinkId,
                 appointmentInvitations, medicalRecords, nextEntryId, healthAssessments, users>>

RespondRequestFindRecord(k) ==
  /\ calls[k].op = "respondRequest" /\ calls[k].pc = "findRecord"
  /\ calls' = [calls EXCEPT ![k] =
       IF \E m \in medicalRecords : m.patient = calls[k].actor
       THEN Respond(@, 200) ELSE Goto(@, "insertRecord")]
  /\ UNCHANGED store

RespondRequestInsertRecord(k) ==
  /\ calls[k].op = "respondRequest" /\ calls[k].pc = "insertRecord"
  /\ IF MedicalRecordIndexAllows(calls[k].actor)
     THEN /\ medicalRecords' = medicalRecords \cup
               {NewRecord(calls[k].actor)}
          /\ calls' = [calls EXCEPT ![k] = Respond(@, 200)]
     ELSE /\ calls' = [calls EXCEPT ![k] = Respond(@, 500)]
          /\ UNCHANGED medicalRecords
  /\ UNCHANGED <<doctorRequests, doctorReceptionAgents, nextAgentLinkId,
                 appointmentInvitations, nextEntryId, healthAssessments, notifications, users>>

----------------------------------------------------------------------------
\* POST /api/appointment-invitations/send

\* A fresh ObjectId for an AppointmentInvitation; never deleted.
NewInvitationId == Cardinality(appointmentInvitations) + 1

SendInvitationInsert(k, u, t) ==
  /\ CanStart(k)
  /\ LET c == NewCall("sendInvitation", u, t, NoId, "none") IN
     IF Role(u) # "Patient"
     THEN calls' = [calls EXCEPT ![k] = Respond(c, 403)] /\ UNCHANGED appointmentInvitations
     ELSE IF t = NoUser
     THEN calls' = [calls EXCEPT ![k] = Respond(c, 400)] /\ UNCHANGED appointmentInvitations
     ELSE IF t \notin Doctors
     THEN calls' = [calls EXCEPT ![k] = Respond(c, 404)] /\ UNCHANGED appointmentInvitations
     ELSE /\ appointmentInvitations' = appointmentInvitations \cup
               {[id |-> NewInvitationId, patient |-> u, doctor |-> t, status |-> "pending"]}
          /\ calls' = [calls EXCEPT ![k] = [Goto(c, "notify") EXCEPT !.doc = NewInvitationId]]
  /\ UNCHANGED <<doctorRequests, doctorReceptionAgents, nextAgentLinkId,
                 medicalRecords, nextEntryId, healthAssessments, notifications, users>>

SendInvitationNotify(k) ==
  /\ calls[k].op = "sendInvitation" /\ calls[k].pc = "notify"
  /\ Notify("appointment_invitation", calls[k].target, calls[k].actor)
  /\ calls' = [calls EXCEPT ![k] = Respond(@, 201)]
  /\ UNCHANGED <<doctorRequests, doctorReceptionAgents, nextAgentLinkId,
                 appointmentInvitations, medicalRecords, nextEntryId, healthAssessments, users>>

----------------------------------------------------------------------------
\* PUT /api/appointment-invitations/:invitationId

RespondInvitationFind(k, u, id, s) ==
  /\ CanStart(k)
  /\ LET c == NewCall("respondInvitation", u, NoUser, id, s)
         found == FindOne({r \in appointmentInvitations : r.id = id /\ r.doctor = u})
     IN calls' = [calls EXCEPT ![k] =
          IF Role(u) # "Doctor" THEN Respond(c, 403)
          ELSE IF s \notin Decisions THEN Respond(c, 400)
          ELSE IF found = {} THEN Respond(c, 404)
          ELSE LET r == CHOOSE r \in found : TRUE IN
               IF r.status # "pending" THEN Respond(c, 400)
               ELSE [Load(Goto(c, "save"), r) EXCEPT !.target = r.patient]]
  /\ UNCHANGED store

RespondInvitationSave(k) ==
  /\ calls[k].op = "respondInvitation" /\ calls[k].pc = "save"
  /\ appointmentInvitations' =
       SetStatus(appointmentInvitations, calls[k].doc, calls[k].decision)
  /\ calls' = [calls EXCEPT ![k] =
       Goto(@, IF calls[k].decision = "accepted" THEN "findRequest" ELSE "notify")]
  /\ UNCHANGED <<doctorRequests, doctorReceptionAgents, nextAgentLinkId,
                 medicalRecords, nextEntryId, healthAssessments, notifications, users>>

\* doctorRequest.status !== 'accepted'
NeedsAccept(status) == status # "accepted"

RespondInvitationFindRequest(k) ==
  /\ calls[k].op = "respondInvitation" /\ calls[k].pc = "findRequest"
  /\ LET found == FindOne({r \in doctorRequests :
                             r.doctor = calls[k].actor /\ r.patient = calls[k].target})
     IN calls' = [calls EXCEPT ![k] =
          IF found = {} THEN Goto(@, "insertRequest")
          ELSE LET r == CHOOSE r \in found : TRUE IN
               IF NeedsAccept(r.status) THEN Load(Goto(@, "saveRequest"), r)
               ELSE Goto(@, "findRecord")]
  /\ UNCHANGED store

\* new DoctorRequest({doctor, patient, status: 'accepted'})
InvitationRequestStatus == "accepted"

RespondInvitationInsertRequest(k) ==
  /\ calls[k].op = "respondInvitation" /\ calls[k].pc = "insertRequest"
  /\ IF DoctorRequestIndexAllows(calls[k].actor, calls[k].target)
     THEN /\ doctorRequests' = doctorRequests \cup
               {[id |-> NewRequestId, doctor |-> calls[k].actor,
                 patient |-> calls[k].target, status |-> InvitationRequestStatus]}
          /\ calls' = [calls EXCEPT ![k] = Goto(@, "findRecord")]
     ELSE /\ calls' = [calls EXCEPT ![k] = Respond(@, 500)]
          /\ UNCHANGED doctorRequests
  /\ UNCHANGED <<doctorReceptionAgents, nextAgentLinkId, appointmentInvitations,
                 medicalRecords, nextEntryId, healthAssessments, notifications, users>>

RespondInvitationSaveRequest(k) ==
  /\ calls[k].op = "respondInvitation" /\ calls[k].pc = "saveRequest"
  /\ doctorRequests' = SetStatus(doctorRequests, calls[k].doc, "accepted")
  /\ calls' = [calls EXCEPT ![k] = Goto(@, "findRecord")]
  /\ UNCHANGED <<doctorReceptionAgents, nextAgentLinkId, appointmentInvitations,
                 medicalRecords, nextEntryId, healthAssessments, notifications, users>>

RespondInvitationFindRecord(k) ==
  /\ calls[k].op = "respondInvitation" /\ calls[k].pc = "findRecord"
  /\ calls' = [calls EXCEPT ![k] =
       IF \E m \in medicalRecords : m.patient = calls[k].target
       THEN Goto(@, "pushAppointment") ELSE Goto(@, "insertRecord")]
  /\ UNCHANGED store

RespondInvitationInsertRecord(k) ==
  /\ calls[k].op = "respondInvitation" /\ calls[k].pc = "insertRecord"
  /\ IF MedicalRecordIndexAllows(calls[k].target)
     THEN /\ medicalRecords' = medicalRecords \cup
               {NewRecord(calls[k].target)}
          /\ calls' = [calls EXCEPT ![k] = Goto(@, "pushAppointment")]
     ELSE /\ calls' = [calls EXCEPT ![k] = Respond(@, 500)]
          /\ UNCHANGED medicalRecords
  /\ UNCHANGED <<doctorRequests, doctorReceptionAgents, nextAgentLinkId,
                 appointmentInvitations, nextEntryId, healthAssessments, notifications, users>>

\* medicalRecord.appointments.push(...); medicalRecord.save(): a $push on the
\* stored document, which also increments its version key.
RespondInvitationPushAppointment(k) ==
  /\ calls[k].op = "respondInvitation" /\ calls[k].pc = "pushAppointment"
  /\ medicalRecords' =
       {IF m.patient = calls[k].target
        THEN [m EXCEPT !.v = @ + 1, !.appointments =
                Append(@, [id |-> nextEntryId, doctor |-> calls[k].actor,
                           val |-> "a", invitation |-> calls[k].id])]
        ELSE m : m \in medicalRecords}
  /\ nextEntryId' = nextEntryId + 1
  /\ calls' = [calls EXCEPT ![k] = Goto(@, "notify")]
  /\ UNCHANGED <<doctorRequests, doctorReceptionAgents, nextAgentLinkId,
                 appointmentInvitations, healthAssessments, notifications, users>>

RespondInvitationNotify(k) ==
  /\ calls[k].op = "respondInvitation" /\ calls[k].pc = "notify"
  /\ Notify(IF calls[k].decision = "accepted" THEN "appointment_accepted"
            ELSE "appointment_rejected",
            calls[k].target, calls[k].actor)
  /\ calls' = [calls EXCEPT ![k] = Respond(@, 200)]
  /\ UNCHANGED <<doctorRequests, doctorReceptionAgents, nextAgentLinkId,
                 appointmentInvitations, medicalRecords, nextEntryId, healthAssessments, users>>

----------------------------------------------------------------------------
\* POST /api/reception-agents/invite

\* doctorReceptionAgentSchema.index({doctor, receptionAgent}, {unique: true})
AgentLinkIndexAllows(d, a) ==
  ~\E r \in doctorReceptionAgents : r.doctor = d /\ r.receptionAgent = a

InviteAgentFind(k, u, t) ==
  /\ CanStart(k)
  /\ LET c == NewCall("inviteAgent", u, t, NoId, "none")
         ex == FindOne({r \in doctorReceptionAgents : r.doctor = u /\ r.receptionAgent = t})
     IN calls' = [calls EXCEPT ![k] =
          IF Role(u) # "Doctor" THEN Respond(c, 403)
          ELSE IF t = NoUser THEN Respond(c, 400)
          ELSE IF t \notin Agents THEN Respond(c, 404)
          ELSE IF ex = {} THEN Goto(c, "insert")
          ELSE LET r == CHOOSE r \in ex : TRUE IN
               IF MayResend(r.status) THEN Load(Goto(c, "resend"), r)
               ELSE Respond(c, 400)]
  /\ UNCHANGED store

\* existingInvitation.save(): an update by _id.  When it matches no document
\* the ODM either rejects the save (DocumentNotFoundError, which the handler's
\* catch answers with 500) or resolves without writing, by its version.
InviteAgentResend(k) ==
  /\ calls[k].op = "inviteAgent" /\ calls[k].pc = "resend"
  /\ IF HasId(doctorReceptionAgents, calls[k].doc)
     THEN /\ doctorReceptionAgents' =
               SetStatus(doctorReceptionAgents, calls[k].doc, "pending")
          /\ calls' = [calls EXCEPT ![k] = Goto(@, "notifyResent")]
     ELSE /\ \/ calls' = [calls EXCEPT ![k] = Respond(@, 500)]
             \/ calls' = [calls EXCEPT ![k] = Goto(@, "notifyResent")]
          /\ UNCHANGED doctorReceptionAgents
  /\ UNCHANGED <<doctorRequests, nextAgentLinkId, appointmentInvitations,
                 medicalRecords, nextEntryId, healthAssessments, notifications, users>>

InviteAgentInsert(k) ==
  /\ calls[k].op = "inviteAgent" /\ calls[k].pc = "insert"
  /\ IF AgentLinkIndexAllows(calls[k].actor, calls[k].target)
     THEN /\ doctorReceptionAgents' = doctorReceptionAgents \cup
               {[id |-> nextAgentLinkId, doctor |-> calls[k].actor,
                 receptionAgent |-> calls[k].target, status |-> "pending"]}
          /\ nextAgentLinkId' = nextAgentLinkId + 1
          /\ calls' = [calls EXCEPT ![k] =
               [Goto(@, "notifySent") EXCEPT !.doc = nextAgentLinkId]]
     ELSE /\ calls' = [calls EXCEPT ![k] = Respond(@, 500)]
          /\ UNCHANGED <<doctorReceptionAgents, nextAgentLinkId, users>>
  /\ UNCHANGED <<doctorRequests, appointmentInvitations, medicalRecords, nextEntryId,
                 healthAssessments, notifications, users>>

InviteAgentNotify(k) ==
  /\ calls[k].op = "inviteAgent" /\ calls[k].pc \in {"notifyResent", "notifySent"}
  /\ Notify("doctor_request", calls[k].target, calls[k].actor)
  /\ calls' = [calls EXCEPT ![k] =
       Respond(@, IF calls[k].pc = "notifyResent" THEN 200 ELSE 201)]
  /\ UNCHANGED <<doctorRequests, doctorReceptionAgents, nextAgentLinkId,
                 appointmentInvitations, medicalRecords, nextEntryId, healthAssessments, users>>

----------------------------------------------------------------------------
\* PUT /api/reception-agents/invitation/:invitationId

\* The filter of DoctorReceptionAgent.findOne in the handler.
RespondAgentFilter(r, id, u) ==
  r.id = id /\ r.receptionAgent = u /\ r.status = "pending"

RespondAgentFind(k, u, id, s) ==
  /\ CanStart(k)
  /\ LET c == NewCall("respondAgent", u, NoUser, id, s)
         found == FindOne({r \in doctorReceptionAgents : RespondAgentFilter(r, id, u)})
     IN calls' = [calls EXCEPT ![k] =
          IF Role(u) # "Reception Agent" THEN Respond(c, 403)
          ELSE IF s \notin Decisions THEN Respond(c, 400)
          ELSE IF found = {} THEN Respond(c, 404)
          ELSE LET r == CHOOSE r \in found : TRUE IN
               [Load(Goto(c, "save"), r) EXCEPT !.target = r.doctor]]
  /\ UNCHANGED store

RespondAgentSave(k) ==
  /\ calls[k].op = "respondAgent" /\ calls[k].pc = "save"
  /\ IF HasId(doctorReceptionAgents, calls[k].doc)
     THEN /\ doctorReceptionAgents' =
               SetStatus(doctorReceptionAgents, calls[k].doc, calls[k].decision)
          /\ calls' = [calls EXCEPT ![k] = Goto(@, "notify")]
     ELSE /\ \/ calls' = [calls EXCEPT ![k] = Respond(@, 500)]
             \/ calls' = [calls EXCEPT ![k] = Goto(@, "notify")]
          /\ UNCHANGED doctorReceptionAgents
  /\ UNCHANGED <<doctorRequests, nextAgentLinkId, appointmentInvitations,
                 medicalRecords, nextEntryId, healthAssessments, notifications, users>>

RespondAgentNotify(k) ==
  /\ calls[k].op = "respondAgent" /\ calls[k].pc = "notify"
  /\ Notify(IF calls[k].decision = "accepted" THEN "request_accepted" ELSE "request_rejected",
            calls[k].target, calls[k].actor)
  /\ calls' = [calls EXCEPT ![k] = Respond(@, 200)]
  /\ UNCHANGED <<doctorRequests, doctorReceptionAgents, nextAgentLinkId,
                 appointmentInvitations, medicalRecords, nextEntryId, healthAssessments, users>>

----------------------------------------------------------------------------
\* DELETE /api/reception-agents/:receptionAgentId

RemoveAgent(k, u, t) ==
  /\ CanStart(k)
  /\ LET c == NewCall("removeAgent", u, t, NoId, "none")
         found == FindOne({r \in doctorReceptionAgents : r.doctor = u /\ r.receptionAgent = t})
     IN IF Role(u) # "Doctor"
        THEN calls' = [calls EXCEPT ![k] = Respond(c, 403)]
             /\ UNCHANGED doctorReceptionAgents
        ELSE IF found = {}
        THEN calls' = [calls EXCEPT ![k] = Respond(c, 404)]
             /\ UNCHANGED doctorReceptionAgents
        ELSE /\ doctorReceptionAgents' = doctorReceptionAgents \ found
             /\ calls' = [calls EXCEPT ![k] = Respond(c, 200)]
  /\ UNCHANGED <<doctorRequests, nextAgentLinkId, appointmentInvitations,
                 medicalRecords, nextEntryId, healthAssessments, notifications, users>>

----------------------------------------------------------------------------
\* Access checks of the medical-record and health-assessment routes

\* DoctorRequest.findOne({doctor, patient, status: 'accepted'}) finds one.
AcceptedRequest(d, p) ==
  \E r \in doctorRequests : r.doctor = d /\ r.patient = p /\ r.status = "accepted"

\* DoctorReceptionAgent.findOne({receptionAgent, doctor, status: 'accepted'})
\* finds one.
AcceptedInvitation(a, d) ==
  \E r \in doctorReceptionAgents :
    r.receptionAgent = a /\ r.doctor = d /\ r.status = "accepted"

\* DoctorReceptionAgent.find({receptionAgent, status: 'accepted'}) mapped to
\* the doctors.
AcceptedDoctorIds(a) ==
  {r.doctor : r \in {x \in doctorReceptionAgents :
                       x.receptionAgent = a /\ x.status = "accepted"}}

\* DoctorRequest.findOne({doctor: {$in: doctorIds}, patient, status:
\* 'accepted'}) finds one.
PatientDoctorAccess(doctorIds, p) ==
  \E d \in doctorIds : AcceptedRequest(d, p)

\* MedicalRecord.findOne({patient})
RecordOf(p) == FindOne({m \in medicalRecords : m.patient = p})

\* medicalRecord.<kind>.id(entryId)
EntryById(entries, id) ==
  FindOne({entries[i] : i \in {j \in DOMAIN entries : entries[j].id = id}})

\* The type argument the routes of a sub-collection pass to
\* notifyMedicalRecordUpdate, which saves a notification of type
\* `${type}_added`.
KindTag(kind) ==
  CASE kind = "appointments" -> "appointment_added"
    [] kind = "prescriptions" -> "prescription_added"
    [] kind = "diseases" -> "disease_added"
    [] kind = "comments" -> "comment_added"
    [] kind = "diagnostics" -> "diagnostic_added"

\* The write routes without their role gate.
WriterRoles_AnyRole(kind) == {"Doctor", "Reception Agent", "Patient", "Admin"}

\* The roles a write route of a sub-collection lets through.
WriterRoles(kind) ==
  IF kind = "appointments" THEN {"Doctor", "Reception Agent"} ELSE {"Doctor"}

----------------------------------------------------------------------------
\* GET /api/medical-records/:patientId

ReadRecordStart(k, u, p) ==
  /\ CanStart(k)
  /\ LET c == NewCall("readRecord", u, p, NoId, "none") IN
     calls' = [calls EXCEPT ![k] =
       CASE Role(u) = "Patient" ->
              IF p # u THEN Respond(c, 403)
              ELSE IF RecordOf(p) # {} THEN Respond(c, 200)
              ELSE Goto(c, "insertRecord")
         [] Role(u) = "Doctor" ->
              IF AcceptedRequest(u, p) THEN Goto(c, "findRecord")
              ELSE Respond(c, 403)
         [] Role(u) = "Reception Agent" ->
              [Goto(c, "findAccess") EXCEPT !.doctors = AcceptedDoctorIds(u)]
         [] OTHER -> Respond(c, 403)]
  /\ UNCHANGED store

ReadRecordFindAccess(k) ==
  /\ calls[k].op = "readRecord" /\ calls[k].pc = "findAccess"
  /\ calls' = [calls EXCEPT ![k] =
       IF PatientDoctorAccess(calls[k].doctors, calls[k].target)
       THEN Goto(@, "findRecord") ELSE Respond(@, 403)]
  /\ UNCHANGED store

ReadRecordFind(k) ==
  /\ calls[k].op = "readRecord" /\ calls[k].pc = "findRecord"
  /\ calls' = [calls EXCEPT ![k] =
       IF RecordOf(calls[k].target) # {} THEN Respond(@, 200)
       ELSE Goto(@, "insertRecord")]
  /\ UNCHANGED store

\* No record was found: new MedicalRecord({patient, ...}).save(), res.json.
ReadRecordInsert(k) ==
  /\ calls[k].op = "readRecord" /\ calls[k].pc = "insertRecord"
  /\ IF MedicalRecordIndexAllows(calls[k].target)
     THEN /\ medicalRecords' = medicalRecords \cup {NewRecord(calls[k].target)}
          /\ calls' = [calls EXCEPT ![k] = Respond(@, 200)]
     ELSE /\ calls' = [calls EXCEPT ![k] = Respond(@, 500)]
          /\ UNCHANGED medicalRecords
  /\ UNCHANGED <<doctorRequests, doctorReceptionAgents, nextAgentLinkId,
                 appointmentInvitations, nextEntryId, healthAssessments,
                 notifications, users>>

----------------------------------------------------------------------------
\* POST /api/medical-records/:patientId/appointment, /prescription, /disease,
\* /comment, /diagnostic

\* The role gate and the first access lookup.  A doctor writes in their own
\* name; a reception agent names the doctor in the body (doctorId), which the
\* request carries as via.
AddEntryStart(k, u, p, kind, doctorId) ==
  /\ CanStart(k)
  /\ LET c == [NewCall("addEntry", u, p, NoId, "none")
                 EXCEPT !.kind = kind, !.via = doctorId]
     IN calls' = [calls EXCEPT ![k] =
       IF Role(u) \notin WriterRoles(kind) THEN Respond(c, 403)
       ELSE IF Role(u) = "Reception Agent"
       THEN IF doctorId = NoUser THEN Respond(c, 400)
            ELSE IF AcceptedInvitation(u, doctorId)
            THEN Goto(c, "findAccess")
            ELSE Respond(c, 403)
       ELSE IF AcceptedRequest(u, p)
            THEN [Goto(c, "findRecord") EXCEPT !.via = u]
            ELSE Respond(c, 403)]
  /\ UNCHANGED store

\* The agent's branch notifying the patient before the doctor's access to the
\* patient is looked up.
AddEntryFindAccess_NotifyFirst(k) ==
  /\ calls[k].op = "addEntry" /\ calls[k].pc = "findAccess"
  /\ Notify(KindTag(calls[k].kind), calls[k].target, calls[k].via)
  /\ calls' = [calls EXCEPT ![k] =
       IF AcceptedRequest(calls[k].via, calls[k].target)
       THEN Goto(@, "findRecord") ELSE Respond(@, 403)]
  /\ UNCHANGED <<doctorRequests, doctorReceptionAgents, nextAgentLinkId,
                 appointmentInvitations, medicalRecords, nextEntryId,
                 healthAssessments, users>>

\* Reception agent: DoctorRequest.findOne({doctor: doctorId, patient, accepted})
AddEntryFindAccess(k) ==
  /\ calls[k].op = "addEntry" /\ calls[k].pc = "findAccess"
  /\ calls' = [calls EXCEPT ![k] =
       IF AcceptedRequest(calls[k].via, calls[k].target)
       THEN Goto(@, "findRecord") ELSE Respond(@, 403)]
  /\ UNCHANGED store

\* MedicalRecord.findOne({patient}); without one the handler goes on with a
\* new, unsaved document.
AddEntryFindRecord(k) ==
  /\ calls[k].op = "addEntry" /\ calls[k].pc = "findRecord"
  /\ LET found == RecordOf(calls[k].target) IN
     calls' = [calls EXCEPT ![k] =
       [Goto(@, "save") EXCEPT !.ver =
          IF found = {} THEN NoVersion ELSE (CHOOSE m \in found : TRUE).v]]
  /\ UNCHANGED store

\* The sub-entry the handler pushes.
NewEntry(doctor) ==
  [id |-> nextEntryId, doctor |-> doctor, val |-> "a", invitation |-> NoId]

\* medicalRecord.<kind>.push(entry); medicalRecord.save(): an insert of the
\* new document, or a $push on the stored one that increments its version.
AddEntrySave(k) ==
  /\ calls[k].op = "addEntry" /\ calls[k].pc = "save"
  /\ LET c == calls[k]
         entry == NewEntry(c.via)
     IN IF c.ver = NoVersion /\ ~MedicalRecordIndexAllows(c.target)
        THEN /\ calls' = [calls EXCEPT ![k] = Respond(@, 500)]
             /\ UNCHANGED <<medicalRecords, nextEntryId, users>>
        ELSE /\ medicalRecords' =
                  IF c.ver = NoVersion
                  THEN medicalRecords \cup
                         {[NewRecord(c.target) EXCEPT ![c.kind] = <<entry>>]}
                  ELSE {IF m.patient = c.target
                        THEN [m EXCEPT !.v = @ + 1, ![c.kind] = Append(@, entry)]
                        ELSE m : m \in medicalRecords}
             /\ nextEntryId' = nextEntryId + 1
             /\ calls' = [calls EXCEPT ![k] = Goto(@, "notify")]
  /\ UNCHANGED <<doctorRequests, doctorReceptionAgents, nextAgentLinkId,
                 appointmentInvitations, healthAssessments, notifications, users>>

\* notifyMedicalRecordUpdate(assignedDoctorId, patientId, type); 201
AddEntryNotify(k) ==
  /\ calls[k].op = "addEntry" /\ calls[k].pc = "notify"
  /\ Notify(KindTag(calls[k].kind), calls[k].target, calls[k].via)
  /\ calls' = [calls EXCEPT ![k] = Respond(@, 201)]
  /\ UNCHANGED <<doctorRequests, doctorReceptionAgents, nextAgentLinkId,
                 appointmentInvitations, medicalRecords, nextEntryId,
                 healthAssessments, users>>

----------------------------------------------------------------------------
\* PUT and DELETE /api/medical-records/:patientId/<kind>/:entryId

\* The handler without the author check.
AuthoredBy_Anyone(e, u) == TRUE

\* entry.doctor.toString() === req.user.userId
AuthoredBy(e, u) == e.doctor = u

\* The role gate, MedicalRecord.findOne, the entry lookup in the loaded
\* document and, for a doctor, the author check.  op is "updateEntry" (PUT) or
\* "deleteEntry" (DELETE); the two handlers differ only in their write.
ChangeEntryStart(k, op, u, p, kind, id) ==
  /\ CanStart(k)
  /\ LET c == [NewCall(op, u, p, id, "none") EXCEPT !.kind = kind]
         found == RecordOf(p)
     IN calls' = [calls EXCEPT ![k] =
          IF Role(u) \notin WriterRoles(kind) THEN Respond(c, 403)
          ELSE IF found = {} THEN Respond(c, 404)
          ELSE LET m == CHOOSE m \in found : TRUE
                   entry == EntryById(m[kind], id)
               IN IF entry = {} THEN Respond(c, 404)
                  ELSE LET e == CHOOSE e \in entry : TRUE
                           held == [c EXCEPT !.via = e.doctor, !.ver = m.v,
                                             !.seen = e.val]
                       IN IF Role(u) = "Reception Agent" THEN Goto(held, "findLink")
                          ELSE IF ~AuthoredBy(e, u) THEN Respond(c, 403)
                          ELSE Goto(held, "save")]
  /\ UNCHANGED store

\* Reception agent: DoctorReceptionAgent.findOne({receptionAgent, doctor:
\* appointment.doctor, status: 'accepted'})
ChangeEntryFindLink(k) ==
  /\ calls[k].op \in {"updateEntry", "deleteEntry"} /\ calls[k].pc = "findLink"
  /\ calls' = [calls EXCEPT ![k] =
       IF AcceptedInvitation(calls[k].actor, calls[k].via)
       THEN Goto(@, "save") ELSE Respond(@, 403)]
  /\ UNCHANGED store

\* The value an update writes: one that differs from the value loaded.
UpdatedVal(val) == IF val = "a" THEN "b" ELSE "a"

\* Fields of the loaded sub-entry were assigned; medicalRecord.save() sends a
\* $set on the entry's position, conditioned on the version key the document
\* was loaded with.  A changed version is a VersionError, answered 500.
UpdateEntrySave(k) ==
  /\ calls[k].op = "updateEntry" /\ calls[k].pc = "save"
  /\ LET c == calls[k] IN
     IF \E m \in medicalRecords : m.patient = c.target /\ m.v = c.ver
     THEN /\ medicalRecords' =
               {IF m.patient = c.target
                THEN [m EXCEPT ![c.kind] =
                        [i \in DOMAIN @ |->
                           IF @[i].id = c.id
                           THEN [@[i] EXCEPT !.val = UpdatedVal(c.seen)]
                           ELSE @[i]]]
                ELSE m : m \in medicalRecords}
          /\ calls' = [calls EXCEPT ![k] = Goto(@, "notify")]
     ELSE /\ calls' = [calls EXCEPT ![k] = Respond(@, 500)]
          /\ UNCHANGED medicalRecords
  /\ UNCHANGED <<doctorRequests, doctorReceptionAgents, nextAgentLinkId,
                 appointmentInvitations, nextEntryId, healthAssessments,
                 notifications, users>>

\* The sequence without the entries of this id.
Pull(entries, id) == SelectSeq(entries, LAMBDA e : e.id # id)

\* entry.deleteOne(); medicalRecord.save(): a $pull of the entry's _id, which
\* increments the version key.
DeleteEntrySave(k) ==
  /\ calls[k].op = "deleteEntry" /\ calls[k].pc = "save"
  /\ LET c == calls[k] IN
     medicalRecords' =
       {IF m.patient = c.target
        THEN [m EXCEPT !.v = @ + 1, ![c.kind] = Pull(@, c.id)]
        ELSE m : m \in medicalRecords}
  /\ calls' = [calls EXCEPT ![k] = Goto(@, "notify")]
  /\ UNCHANGED <<doctorRequests, doctorReceptionAgents, nextAgentLinkId,
                 appointmentInvitations, nextEntryId, healthAssessments,
                 notifications, users>>

\* The handlers notifying in the name of the caller.
ChangeEntryNotify_ByActor(k) ==
  /\ calls[k].op \in {"updateEntry", "deleteEntry"} /\ calls[k].pc = "notify"
  /\ Notify(KindTag(calls[k].kind), calls[k].target, calls[k].actor)
  /\ calls' = [calls EXCEPT ![k] = Respond(@, 200)]
  /\ UNCHANGED <<doctorRequests, doctorReceptionAgents, nextAgentLinkId,
                 appointmentInvitations, medicalRecords, nextEntryId,
                 healthAssessments, users>>

\* notifyMedicalRecordUpdate(entry.doctor, patientId, type); res.json
ChangeEntryNotify(k) ==
  /\ calls[k].op \in {"updateEntry", "deleteEntry"} /\ calls[k].pc = "notify"
  /\ Notify(KindTag(calls[k].kind), calls[k].target, calls[k].via)
  /\ calls' = [calls EXCEPT ![k] = Respond(@, 200)]
  /\ UNCHANGED <<doctorRequests, doctorReceptionAgents, nextAgentLinkId,
                 appointmentInvitations, medicalRecords, nextEntryId,
                 healthAssessments, users>>

----------------------------------------------------------------------------
\* GET /api/health-assessment/patient/:patientId

\* The role gate and, for a doctor, the access lookup; a reception agent goes
\* straight to HealthAssessment.findOne.
ReadAssessmentStart(k, u, p) ==
  /\ CanStart(k)
  /\ LET c == NewCall("readAssessment", u, p, NoId, "none") IN
     calls' = [calls EXCEPT ![k] =
       IF Role(u) \notin {"Doctor", "Reception Agent"} THEN Respond(c, 403)
       ELSE IF Role(u) = "Doctor"
       THEN IF AcceptedRequest(u, p) THEN Goto(c, "findAssessment")
            ELSE Respond(c, 403)
       ELSE IF \E h \in healthAssessments : h.patient = p THEN Respond(c, 200)
            ELSE Respond(c, 404)]
  /\ UNCHANGED store

ReadAssessmentFind(k) ==
  /\ calls[k].op = "readAssessment" /\ calls[k].pc = "findAssessment"
  /\ calls' = [calls EXCEPT ![k] =
       IF \E h \in healthAssessments : h.patient = calls[k].target
       THEN Respond(@, 200) ELSE Respond(@, 404)]
  /\ UNCHANGED store

----------------------------------------------------------------------------
\* JavaScript numbers
\*
\* height / 100, heightInMeters * heightInMeters and weight / (...) are
\* operations on IEEE-754 binary64 values: each result is the exact result
\* rounded to the nearest number with a 53-digit binary significand, ties to
\* the even one.  A positive number is kept as [m, e], standing for m * 2^e
\* with 2^52 <= m < 2^53, and m as the sequence of its digits in base Base,
\* lowest first, so that no intermediate value leaves the integers.

DigitBits == 14
Base == 2 ^ DigitBits

\* const x = e: the value of e under the name x is The({... x ... : x \in {e}}),
\* which computes e once.
The(values) == CHOOSE value \in values : TRUE

RECURSIVE ToDigits(_)
ToDigits(n) == IF n = 0 THEN <<>> ELSE <<n % Base>> \o ToDigits(n \div Base)

RECURSIVE TrimTo(_, _)
TrimTo(a, n) ==
  IF n = 0 \/ a[n] # 0 THEN SubSeq(a, 1, n) ELSE TrimTo(a, n - 1)

\* Without leading zero digits.
Trim(a) == The({TrimTo(x, Len(x)) : x \in {a}})

Digit(a, i) == IF i <= Len(a) THEN a[i] ELSE 0

RECURSIVE LessFrom(_, _, _)
LessFrom(a, b, i) ==
  IF i = 0 THEN FALSE
  ELSE IF a[i] # b[i] THEN a[i] < b[i]
  ELSE LessFrom(a, b, i - 1)

\* a < b
Less(a, b) ==
  \E x \in {a}, y \in {b} :
    IF Len(x) # Len(y) THEN Len(x) < Len(y) ELSE LessFrom(x, y, Len(x))

RECURSIVE AddFrom(_, _, _, _)
AddFrom(a, b, i, carry) ==
  IF i > Len(a) /\ i > Len(b)
  THEN IF carry = 1 THEN <<1>> ELSE <<>>
  ELSE LET s == Digit(a, i) + Digit(b, i) + carry IN
       <<s % Base>> \o AddFrom(a, b, i + 1, s \div Base)

\* a + b
Add(a, b) == The({AddFrom(x, y, 1, 0) : x \in {a}, y \in {b}})

RECURSIVE SubFrom(_, _, _, _)
SubFrom(a, b, i, borrow) ==
  IF i > Len(a) THEN <<>>
  ELSE LET d == Digit(a, i) - Digit(b, i) - borrow IN
       <<d % Base>> \o SubFrom(a, b, i + 1, IF d < 0 THEN 1 ELSE 0)

\* a - b, for a >= b
Sub(a, b) == Trim(The({SubFrom(x, y, 1, 0) : x \in {a}, y \in {b}}))

RECURSIVE ScaleFrom(_, _, _, _)
ScaleFrom(a, c, i, carry) ==
  IF i > Len(a) THEN ToDigits(carry)
  ELSE LET s == a[i] * c + carry IN
       <<s % Base>> \o ScaleFrom(a, c, i + 1, s \div Base)

\* a * c, for a number c <= Base
Scale(a, c) == Trim(The({ScaleFrom(x, c, 1, 0) : x \in {a}}))

\* a * Base^n
Up(a, n) == The({IF x = <<>> THEN x ELSE [i \in 1..n |-> 0] \o x : x \in {a}})

RECURSIVE MulFrom(_, _, _)
MulFrom(a, b, i) ==
  IF i > Len(b) THEN <<>>
  ELSE Add(Scale(a, b[i]), Up(MulFrom(a, b, i + 1), 1))

\* a * b
Mul(a, b) == The({MulFrom(x, y, 1) : x \in {a}, y \in {b}})

\* a * 2^n
Shl(a, n) == Up(Scale(a, 2 ^ (n % DigitBits)), n \div DigitBits)

\* The number of binary digits of a.
BitLen(a) ==
  The({IF x = <<>> THEN 0
       ELSE DigitBits * (Len(x) - 1)
              + (CHOOSE k \in 1..DigitBits :
                   2 ^ (k - 1) <= x[Len(x)] /\ x[Len(x)] < 2 ^ k) : x \in {a}})

\* The digit c of a quotient with c * d <= r < (c + 1) * d.  It lies between
\* the estimates made from the leading digits of r and of d.
QuotientDigit(r, d) ==
  LET lead == Digit(r, Len(d) + 1) * Base + Digit(r, Len(d))
      least == IF Len(d) = 1 THEN lead \div d[1]
               ELSE lead \div (d[Len(d)] + 1)
  IN CHOOSE c \in least..(lead \div d[Len(d)]) :
       Less(r, Scale(d, c + 1)) /\ ~Less(r, Scale(d, c))

\* Long division by d # 0 with the digits i..1 of a still to bring down, q
\* the digits of the quotient and r the remainder so far.
RECURSIVE DivFrom(_, _, _, _, _)
DivFrom(a, d, i, q, r) ==
  IF i = 0 THEN [q |-> Trim(q), r |-> r]
  ELSE The({DivFrom(a, d, i - 1, <<step.c>> \o q, Sub(step.r, Scale(d, step.c))) :
              step \in {[r |-> r2, c |-> QuotientDigit(r2, d)] :
                          r2 \in {Trim(<<a[i]>> \o r)}}})

\* Quotient q and remainder r of a by d # 0; the leading digits of a, one
\* fewer than d has, are the first remainder.
Div(a, d) ==
  The({IF Len(x) < Len(y) THEN [q |-> <<>>, r |-> x]
       ELSE DivFrom(x, y, Len(x) - Len(y) + 1, <<>>,
                    SubSeq(x, Len(x) - Len(y) + 2, Len(x))) :
         x \in {a}, y \in {d}})

\* The scale s at which n * 2^s / d has 53 binary digits: n * 2^s0 / d has
\* 54 of them when n / d >= 2^(BitLen(n) - BitLen(d)).
Scale53(n, d) ==
  LET s0 == 53 + BitLen(d) - BitLen(n)
      ahead == IF s0 >= 53 THEN ~Less(Shl(n, s0 - 53), d)
               ELSE ~Less(n, Shl(d, 53 - s0))
  IN IF ahead THEN s0 - 1 ELSE s0

\* The quotient q of a division by den, rounded by its remainder r to the
\* nearest integer, to the even one of two that are equally near.
Nearest(qr, den) ==
  The({IF Less(den, twice) \/ (twice = den /\ qr.q[1] % 2 = 1)
       THEN Add(qr.q, <<1>>) ELSE qr.q : twice \in {Shl(qr.r, 1)}})

\* m * 2^e with m of 53 binary digits, for an m that rounding took to 2^53.
Normal(m, e) ==
  IF BitLen(m) = 54 THEN [m |-> Div(m, <<2>>).q, e |-> e + 1]
  ELSE [m |-> m, e |-> e]

\* n / d * 2^e as a binary64 number: the quotient is taken at the scale at
\* which it has 53 binary digits and rounded by the remainder.
RoundAt(n, d, e, s) ==
  The({Normal(m, e - s) :
         m \in {IF s >= 0 THEN Nearest(Div(Shl(n, s), d), d)
                ELSE Nearest(Div(n, den), den) : den \in {Shl(d, -s)}}})

Round(n, d, e) ==
  The({RoundAt(x.n, x.d, e, x.s) :
         x \in {[n |-> a, d |-> b, s |-> Scale53(a, b)] : a \in {n}, b \in {d}}})

\* The number n, an integer > 0.
Number(n) == Round(ToDigits(n), <<1>>, 0)
\* x * y
Times(x, y) == The({Round(Mul(a.m, b.m), <<1>>, a.e + b.e) : a \in {x}, b \in {y}})
\* x / y
Over(x, y) == The({Round(a.m, b.m, a.e - b.e) : a \in {x}, b \in {y}})

\* x >= n, for an integer n > 0
AtLeast(x, n) ==
  IF x.e >= 0 THEN ~Less(Shl(x.m, x.e), ToDigits(n))
  ELSE ~Less(x.m, Shl(ToDigits(n), -x.e))

----------------------------------------------------------------------------
\* Risk calculation service
\*
\* A function of the service adds points to score and pushes a string onto
\* factors for every rule that applies, in the order of its statements.  Here
\* a rule that applies yields the pair of its points and its string; the
\* score and the factor list are taken from the pairs in that order.  The
\* rules of a function are a table in the answers and in the limits that
\* the body mass index reaches.

calculateBMI(weight, height) ==
  The({Over(Number(weight), Times(heightInMeters, heightInMeters)) :
         heightInMeters \in {Over(Number(height), Number(100))}})

\* if (condition) { score += points; factors.push(factor); }
When(condition, points, factor) ==
  IF condition THEN <<[points |-> points, factor |-> factor]>> ELSE <<>>

RECURSIVE Points(_)
Points(rules) ==
  IF rules = <<>> THEN 0 ELSE Head(rules).points + Points(Tail(rules))

RECURSIVE Pushed(_)
Pushed(rules) ==
  IF rules = <<>> THEN <<>> ELSE <<Head(rules).factor>> \o Pushed(Tail(rules))

\* The levels with each comparison strict.
RiskLevel_Above(score) ==
  IF score > 70 THEN "Very High"
  ELSE IF score > 50 THEN "High"
  ELSE IF score > 30 THEN "Moderate"
  ELSE "Low"

RiskLevel(score) ==
  IF score >= 70 THEN "Very High"
  ELSE IF score >= 50 THEN "High"
  ELSE IF score >= 30 THEN "Moderate"
  ELSE "Low"

\* score = Math.min(score, 100), the risk level, the placeholder of an empty
\* factor list, and the returned object.
Prediction(rules, placeholder) ==
  The({LET score == IF Points(applied) < 100 THEN Points(applied) ELSE 100
           factors == Pushed(applied)
       IN [risk |-> RiskLevel(score), score |-> score,
           factors |-> IF Len(factors) = 0 THEN <<placeholder>> ELSE factors] :
         applied \in {rules}})

\* The limits that the functions compare bmi with, and those that a bmi
\* reaches: bmi >= 25, bmi >= 30, bmi >= 35.
BMILimits == {25, 30, 35}

Reached(bmi) == {limit \in BMILimits : AtLeast(bmi, limit)}

Inactive(assessment) == assessment.exerciseFrequency \in {"Never", "Rarely"}

StrokeTable(assessment, reached) ==
     (IF assessment.age >= 75
      THEN When(TRUE, 30, "Age 75+ significantly increases stroke risk")
      ELSE IF assessment.age >= 65
      THEN When(TRUE, 20, "Age 65-74 increases stroke risk")
      ELSE When(assessment.age >= 55, 10,
                "Age 55+ moderately increases stroke risk"))
  \o When(assessment.hasHighBloodPressure, 25,
          "High blood pressure is a major stroke risk factor")
  \o When(assessment.hasDiabetes, 15, "Diabetes increases stroke risk")
  \o When(assessment.hadStroke, 35,
          "Previous stroke significantly increases risk of recurrence")
  \o When(assessment.hasHeartDisease, 20, "Heart disease increases stroke risk")
  \o When(assessment.hasHighCholesterol, 10,
          "High cholesterol contributes to stroke risk")
  \o (IF assessment.smokingStatus = "Current"
      THEN When(TRUE, 15, "Current smoking doubles stroke risk")
      ELSE When(assessment.smokingStatus = "Former", 5,
                "Former smoking slightly increases risk"))
  \o When(Inactive(assessment), 8, "Lack of exercise increases stroke risk")
  \o (IF 30 \in reached
      THEN When(TRUE, 12, "Obesity (BMI >=30) increases stroke risk")
      ELSE When(25 \in reached, 6,
                "Overweight (BMI 25-30) moderately increases risk"))
  \o When(assessment.familyStroke, 10, "Family history of stroke increases risk")
  \o When(assessment.numbness \/ assessment.dizziness, 15,
          "Current symptoms require immediate medical attention")

\* const bmi = calculateBMI(assessment.weight, assessment.height), and the
\* scan of the rules with it.
StrokeRules(assessment) ==
  The({StrokeTable(assessment, Reached(bmi)) :
         bmi \in {calculateBMI(assessment.weight, assessment.height)}})

calculateStrokeRisk(assessment) ==
  Prediction(StrokeRules(assessment),
             "No major risk factors identified. Maintain healthy lifestyle.")

HeartDiseaseTable(assessment, reached) ==
     (IF assessment.age >= 65
      THEN When(TRUE, 25, "Age 65+ significantly increases heart disease risk")
      ELSE IF assessment.age >= 55
      THEN When(TRUE, 15, "Age 55+ increases heart disease risk")
      ELSE When(assessment.age >= 45, 8, "Age 45+ moderately increases risk"))
  \o (IF assessment.gender = "Male" /\ assessment.age >= 45
      THEN When(TRUE, 10, "Men over 45 have higher heart disease risk")
      ELSE When(assessment.gender = "Female" /\ assessment.age >= 55, 10,
                "Women over 55 have increased heart disease risk"))
  \o When(assessment.hasHeartDisease, 40,
          "Existing heart disease requires ongoing management")
  \o When(assessment.hasHighBloodPressure, 20,
          "High blood pressure damages arteries over time")
  \o When(assessment.hasHighCholesterol, 18, "High cholesterol clogs arteries")
  \o When(assessment.hasDiabetes, 20,
          "Diabetes significantly increases heart disease risk")
  \o (IF assessment.smokingStatus = "Current"
      THEN When(TRUE, 20, "Smoking is a leading cause of heart disease")
      ELSE When(assessment.smokingStatus = "Former", 8,
                "Former smoking still poses some risk"))
  \o When(Inactive(assessment), 10, "Physical inactivity weakens the heart")
  \o When(assessment.alcoholConsumption = "Heavily", 12,
          "Heavy alcohol use damages the heart")
  \o (IF 30 \in reached
      THEN When(TRUE, 15, "Obesity strains the cardiovascular system")
      ELSE When(25 \in reached, 8,
                "Being overweight increases heart disease risk"))
  \o When(assessment.familyHeartDisease, 12,
          "Family history of heart disease increases risk")
  \o When(assessment.chestPain, 20,
          "Chest pain requires immediate medical evaluation")
  \o When(assessment.shortnessOfBreath, 12,
          "Shortness of breath may indicate heart problems")

\* const bmi = calculateBMI(assessment.weight, assessment.height), and the
\* scan of the rules with it.
HeartDiseaseRules(assessment) ==
  The({HeartDiseaseTable(assessment, Reached(bmi)) :
         bmi \in {calculateBMI(assessment.weight, assessment.height)}})

calculateHeartDiseaseRisk(assessment) ==
  Prediction(HeartDiseaseRules(assessment),
             "No major risk factors identified. Keep up healthy habits.")

DiabetesTable(assessment, reached) ==
     When(assessment.age >= 45, 15, "Age 45+ increases diabetes risk")
  \o (IF 35 \in reached
      THEN When(TRUE, 30,
                "Severe obesity (BMI >=35) greatly increases diabetes risk")
      ELSE IF 30 \in reached
      THEN When(TRUE, 25,
                "Obesity (BMI 30-35) significantly increases diabetes risk")
      ELSE When(25 \in reached, 15,
                "Being overweight (BMI 25-30) increases diabetes risk"))
  \o When(assessment.familyDiabetes, 20,
          "Family history of diabetes increases risk significantly")
  \o When(Inactive(assessment), 12, "Physical inactivity increases diabetes risk")
  \o When(assessment.hasHighBloodPressure, 10,
          "High blood pressure often accompanies diabetes")
  \o When(assessment.hasHighCholesterol, 8,
          "High cholesterol increases diabetes risk")
  \o When(assessment.fatigue, 10,
          "Chronic fatigue may indicate blood sugar issues")

\* const bmi = calculateBMI(assessment.weight, assessment.height), and the
\* scan of the rules with it.
DiabetesRules(assessment) ==
  The({DiabetesTable(assessment, Reached(bmi)) :
         bmi \in {calculateBMI(assessment.weight, assessment.height)}})

AlreadyDiagnosed ==
  "Already diagnosed with diabetes. Continue treatment and monitoring."

\* The function with its early return for a diagnosed patient removed.
calculateDiabetesRisk_NoEarlyReturn(assessment) ==
  Prediction(DiabetesRules(assessment),
             "Low risk. Maintain healthy weight and active lifestyle.")

calculateDiabetesRisk(assessment) ==
  IF assessment.hasDiabetes
  THEN [risk |-> "Very High", score |-> 100, factors |-> <<AlreadyDiagnosed>>]
  ELSE Prediction(DiabetesRules(assessment),
                  "Low risk. Maintain healthy weight and active lifestyle.")

calculateAllRisks(assessment) ==
  [stroke |-> calculateStrokeRisk(assessment),
   heartDisease |-> calculateHeartDiseaseRisk(assessment),
   diabetes |-> calculateDiabetesRisk(assessment)]

----------------------------------------------------------------------------
\* POST /api/health-assessment/submit

\* The yes/no answers of the questionnaire.
Conditions ==
  {"hasDiabetes", "hasHighBloodPressure", "hasHeartDisease", "hadStroke",
   "hasHighCholesterol", "familyHeartDisease", "familyStroke",
   "familyDiabetes", "chestPain", "shortnessOfBreath", "dizziness", "fatigue",
   "numbness"}

\* req.body, and assessmentData built from it; a value that is missing is 0
\* (a number), "" (a string) or false (an answer, by `|| false`).
Answers(age, gender, height, weight, smoking, exercise, alcohol, present) ==
  [age |-> age, gender |-> gender, height |-> height, weight |-> weight,
   hasDiabetes |-> "hasDiabetes" \in present,
   hasHighBloodPressure |-> "hasHighBloodPressure" \in present,
   hasHeartDisease |-> "hasHeartDisease" \in present,
   hadStroke |-> "hadStroke" \in present,
   hasHighCholesterol |-> "hasHighCholesterol" \in present,
   smokingStatus |-> smoking,
   exerciseFrequency |-> exercise,
   alcoholConsumption |-> alcohol,
   familyHeartDisease |-> "familyHeartDisease" \in present,
   familyStroke |-> "familyStroke" \in present,
   familyDiabetes |-> "familyDiabetes" \in present,
   chestPain |-> "chestPain" \in present,
   shortnessOfBreath |-> "shortnessOfBreath" \in present,
   dizziness |-> "dizziness" \in present,
   fatigue |-> "fatigue" \in present,
   numbness |-> "numbness" \in present]

\* !age || !gender || !height || !weight || !smokingStatus ||
\* !exerciseFrequency || !alcoholConsumption
RequiredMissing(body) ==
  \/ body.age = 0 \/ body.gender = "" \/ body.height = 0 \/ body.weight = 0
  \/ body.smokingStatus = "" \/ body.exerciseFrequency = ""
  \/ body.alcoholConsumption = ""

Genders == {"Male", "Female", "Other"}
SmokingStatuses == {"Never", "Former", "Current"}
ExerciseFrequencies == {"Never", "Rarely", "Sometimes", "Regularly", "Daily"}
AlcoholConsumptions == {"Never", "Occasionally", "Moderately", "Heavily"}

\* The validators of healthAssessmentSchema, run by save().
SchemaAllows(data) ==
  /\ data.age \in 0..150
  /\ data.gender \in Genders
  /\ data.height \in 50..300
  /\ data.weight \in 20..500
  /\ data.smokingStatus \in SmokingStatuses
  /\ data.exerciseFrequency \in ExerciseFrequencies
  /\ data.alcoholConsumption \in AlcoholConsumptions

\* healthAssessmentSchema: patient is unique.
HealthAssessmentIndexAllows(p) ==
  ~\E h \in healthAssessments : h.patient = p

\* The assessment of patient p as one submission of data stores it.
Assessment(p, data) ==
  [patient |-> p, data |-> data, predictions |-> calculateAllRisks(data)]

\* A questionnaire to which no rule of any disease applies.
NoRiskAnswers ==
  Answers(30, "Female", 175, 70, "Never", "Regularly", "Never", {})

\* Object.assign(assessment, assessmentData) on the loaded document, then
\* save(): updateOne({_id}, {$set: ...}) of the modified paths, onto the
\* document as it is stored now.  A field of the questionnaire is modified
\* when its value differs from the loaded one.  predictions, a nested path
\* that is assigned an object, is modified as a whole: always in Mongoose 5,
\* and unless the object equals the loaded one since Mongoose 6 (marked).
AssignAndSave(h, loaded, data, predictions, marked) ==
  [h EXCEPT
     !.data = [f \in DOMAIN data |->
                 IF data[f] # loaded.data[f] THEN data[f] ELSE h.data[f]],
     !.predictions = IF marked \/ predictions # loaded.predictions
                     THEN predictions ELSE h.predictions]

\* The role gate, the required fields, HealthAssessment.findOne({patient}),
\* assessmentData and calculateAllRisks(assessmentData).
SubmitAssessmentStart(k, u, body) ==
  /\ CanStart(k)
  /\ LET c == [NewCall("submitAssessment", u, u, NoId, "none")
                 EXCEPT !.body = body]
         found == FindOne({h \in healthAssessments : h.patient = u})
     IN calls' = [calls EXCEPT ![k] =
          IF Role(u) # "Patient" THEN Respond(c, 403)
          ELSE IF RequiredMissing(body) THEN Respond(c, 400)
          ELSE [Goto(c, "save") EXCEPT
                  !.predictions = calculateAllRisks(body),
                  !.loaded = IF found = {} THEN NoData
                             ELSE CHOOSE h \in found : TRUE]]
  /\ UNCHANGED store

\* assessment.save(): of the loaded document, or of a new one.  A validation
\* error and a duplicate key are caught and answered 500.
SubmitAssessmentSave(k) ==
  /\ calls[k].op = "submitAssessment" /\ calls[k].pc = "save"
  /\ LET c == calls[k]
         p == c.actor
         ok == /\ SchemaAllows(c.body)
               /\ c.loaded = NoData => HealthAssessmentIndexAllows(p)
     IN /\ \E marked \in IF ok /\ c.loaded # NoData THEN BOOLEAN ELSE {FALSE} :
             healthAssessments' =
               IF ~ok THEN healthAssessments
               ELSE IF c.loaded = NoData
               THEN healthAssessments \cup
                      {[patient |-> p, data |-> c.body,
                        predictions |-> c.predictions]}
               ELSE {IF h.patient = p
                     THEN AssignAndSave(h, c.loaded, c.body, c.predictions,
                                        marked)
                     ELSE h : h \in healthAssessments}
        /\ calls' = [calls EXCEPT ![k] = Respond(c, IF ok THEN 201 ELSE 500)]
  /\ UNCHANGED <<doctorRequests, doctorReceptionAgents, nextAgentLinkId,
                 appointmentInvitations, medicalRecords, nextEntryId,
                 notifications, users>>

----------------------------------------------------------------------------
\* Request inputs

\* req.user of a verified token: the users of the role the route is for, and
\* one user of another role.
DoctorActors == Doctors \cup {"p1"}
PatientActors == Patients \cup {"d1"}
AgentActors == Agents \cup {"d1"}
\* patientId, doctorId, receptionAgentId: the id of a user of the expected
\* role, of another user, or missing.
PatientTargets == Patients \cup {"a1", NoUser}
DoctorTargets == Doctors \cup {"p1", NoUser}
AgentTargets == Agents \cup {"p1", NoUser}
\* req.body.status
StatusInputs == Decisions \cup {"pending"}
\* :requestId, :invitationId: the id of a stored document, or of none.
IdInputs(coll) == {r.id : r \in coll} \cup {NoId}

----------------------------------------------------------------------------
\* Stores the program can be in when no request is in flight: doctor d1 has
\* sent patient p1 a request or not, and invited agent a1 or not, and either
\* has been answered or not.  A patient who accepted has a medical record.
\* Patient p1 has an appointment invitation waiting for d1 or not.

InitialStatuses == Statuses \cup {"none"}

InitialRequests(s) ==
  IF s = "none" THEN {}
  ELSE {[id |-> 1, doctor |-> "d1", patient |-> "p1", status |-> s]}

InitialAgentLinks(s) ==
  IF s = "none" THEN {}
  ELSE {[id |-> 1, doctor |-> "d1", receptionAgent |-> "a1", status |-> s]}

InitialInvitations ==
  {{}, {[id |-> 1, patient |-> "p1", doctor |-> "d1", status |-> "pending"]}}

Init ==
  /\ \E s \in InitialStatuses :
       /\ doctorRequests = InitialRequests(s)
       /\ medicalRecords = IF s = "accepted"
                           THEN {NewRecord("p1")}
                           ELSE {}
  /\ \E s \in InitialStatuses :
       /\ doctorReceptionAgents = InitialAgentLinks(s)
       /\ nextAgentLinkId = IF s = "none" THEN 1 ELSE 2
  /\ appointmentInvitations \in InitialInvitations
  /\ nextEntryId = 1
  /\ healthAssessments = {}
  /\ notifications = EmptyBag
  /\ users = Accounts
  /\ calls = [k \in Calls |-> IdleCall]

Next ==
  \/ \E k \in Arriving, u \in DoctorActors, t \in PatientTargets : SendRequestFind(k, u, t)
  \/ \E k \in Calls : SendRequestResend(k)
  \/ \E k \in Calls : SendRequestInsert(k)
  \/ \E k \in Calls : SendRequestNotify(k)
  \/ \E k \in Arriving, u \in PatientActors, id \in IdInputs(doctorRequests), s \in StatusInputs :
       RespondRequestFind(k, u, id, s)
  \/ \E k \in Calls : RespondRequestSave(k)
  \/ \E k \in Calls : RespondRequestNotify(k)
  \/ \E k \in Calls : RespondRequestFindRecord(k)
  \/ \E k \in Calls : RespondRequestInsertRecord(k)
  \/ \E k \in Arriving, u \in PatientActors, t \in DoctorTargets : SendInvitationInsert(k, u, t)
  \/ \E k \in Calls : SendInvitationNotify(k)
  \/ \E k \in Arriving, u \in DoctorActors, id \in IdInputs(appointmentInvitations),
        s \in StatusInputs : RespondInvitationFind(k, u, id, s)
  \/ \E k \in Calls : RespondInvitationSave(k)
  \/ \E k \in Calls : RespondInvitationFindRequest(k)
  \/ \E k \in Calls : RespondInvitationInsertRequest(k)
  \/ \E k \in Calls : RespondInvitationSaveRequest(k)
  \/ \E k \in Calls : RespondInvitationFindRecord(k)
  \/ \E k \in Calls : RespondInvitationInsertRecord(k)
  \/ \E k \in Calls : RespondInvitationPushAppointment(k)
  \/ \E k \in Calls : RespondInvitationNotify(k)
  \/ \E k \in Arriving, u \in DoctorActors, t \in AgentTargets : InviteAgentFind(k, u, t)
  \/ \E k \in Calls : InviteAgentResend(k)
  \/ \E k \in Calls : InviteAgentInsert(k)
  \/ \E k \in Calls : InviteAgentNotify(k)
  \/ \E k \in Arriving, u \in AgentActors, id \in IdInputs(doctorReceptionAgents),
        s \in StatusInputs : RespondAgentFind(k, u, id, s)
  \/ \E k \in Calls : RespondAgentSave(k)
  \/ \E k \in Calls : RespondAgentNotify(k)
  \/ \E k \in Arriving, u \in DoctorActors, t \in AgentTargets \ {NoUser} : RemoveAgent(k, u, t)

Spec == Init /\ [][Next]_vars

----------------------------------------------------------------------------
\* The medical-record and health-assessment routes, with the patient's
\* respond route beside them.

\* req.user: a user of each role.
RecordActors == {"d1", "d2", "a1", "p1", "adm"}

\* :patientId of the write routes.  No doctor has a request with p2, whose
\* record a doctor is refused like that of p1 without a request.
WrittenPatients == {"p1"}

\* req.body.doctorId, which only the reception agent's branch of the
\* appointment route reads.
DoctorIdInputs(u, kind) ==
  IF Role(u) = "Reception Agent" /\ kind = "appointments"
  THEN Doctors \cup {NoUser} ELSE {NoUser}

\* :patientId of the read routes.  Only the patient's branch compares it
\* with the actor; the other branches look it up in DoctorRequest, where p2
\* has no document.
ReadPatients(u) == IF Role(u) = "Patient" THEN Patients ELSE WrittenPatients

\* :appointmentId, :prescriptionId, ...: the _id of an entry of that
\* sub-collection of the patient's record, or of none.  The role gate answers
\* before the parameter is read.
EntryIdInputs(u, p, kind) ==
  IF Role(u) \notin WriterRoles(kind) THEN {NoId}
  ELSE UNION {{m[kind][i].id : i \in 1..Len(m[kind])} :
                m \in {x \in medicalRecords : x.patient = p}} \cup {NoId}

\* The DoctorRequests of d1 and of d2 with patient p1.
RecordRequests(s1, s2) ==
  InitialRequests(s1) \cup
  (IF s2 = "none" THEN {}
   ELSE {[id |-> IF s1 = "none" THEN 1 ELSE 2, doctor |-> "d2", patient |-> "p1",
          status |-> s2]})

\* Agent a1's DoctorReceptionAgent record: accepted with d1 or with d2, or
\* rejected with d1.
RecordAgentLinks ==
  {{[id |-> 1, doctor |-> d, receptionAgent |-> "a1", status |-> "accepted"]} :
     d \in Doctors} \cup
  {InitialAgentLinks("rejected")}

\* A record of p1 in which d1 has written one entry of each kind.
WrittenRecord ==
  [patient |-> "p1", v |-> 5,
   appointments |-> <<[id |-> 1, doctor |-> "d1", val |-> "a", invitation |-> NoId]>>,
   prescriptions |-> <<[id |-> 2, doctor |-> "d1", val |-> "a", invitation |-> NoId]>>,
   diseases |-> <<[id |-> 3, doctor |-> "d1", val |-> "a", invitation |-> NoId]>>,
   comments |-> <<[id |-> 4, doctor |-> "d1", val |-> "a", invitation |-> NoId]>>,
   diagnostics |-> <<[id |-> 5, doctor |-> "d1", val |-> "a", invitation |-> NoId]>>]

\* The statuses of d2's request beside d1's of status s1: none or accepted,
\* and pending beside an accepted one.
SecondStatuses(s1) ==
  {"none", "accepted"} \cup (IF s1 = "accepted" THEN {"pending"} ELSE {})

\* The records p1 can have at rest.  A patient who accepted a request has a
\* record; d1 can have written only if d1's request was once accepted, and
\* the request may since have been overwritten by a racing reject.
RecordsAtRest(s1, s2) ==
  CASE s1 = "none" /\ s2 = "none" -> {{}}
    [] s1 = "none" /\ s2 # "none" -> {{NewRecord("p1")}}
    [] s1 = "pending" -> IF s2 = "none" THEN {{}} ELSE {{NewRecord("p1")}}
    [] s1 = "rejected" -> {{WrittenRecord}}
    [] s1 = "accepted" -> {{WrittenRecord}}

RecordInit ==
  /\ \E s1 \in InitialStatuses : \E s2 \in SecondStatuses(s1) :
       /\ doctorRequests = RecordRequests(s1, s2)
       /\ medicalRecords \in RecordsAtRest(s1, s2)
       /\ nextEntryId = IF medicalRecords = {WrittenRecord} THEN 6 ELSE 1
  /\ doctorReceptionAgents \in RecordAgentLinks
  /\ nextAgentLinkId = 2
  /\ appointmentInvitations = {}
  /\ healthAssessments = {Assessment("p1", NoRiskAnswers)}
  /\ notifications = EmptyBag
  /\ users = Accounts
  /\ calls = [k \in Calls |-> IdleCall]

RecordNext ==
  \/ \E k \in Arriving, u \in RecordActors :
       \E p \in ReadPatients(u) : ReadRecordStart(k, u, p)
  \/ \E k \in Calls : ReadRecordFindAccess(k)
  \/ \E k \in Calls : ReadRecordFind(k)
  \/ \E k \in Calls : ReadRecordInsert(k)
  \/ \E k \in Arriving, u \in RecordActors, p \in WrittenPatients, kind \in Kinds :
       \E doctorId \in DoctorIdInputs(u, kind) : AddEntryStart(k, u, p, kind, doctorId)
  \/ \E k \in Calls : AddEntryFindAccess(k)
  \/ \E k \in Calls : AddEntryFindRecord(k)
  \/ \E k \in Calls : AddEntrySave(k)
  \/ \E k \in Calls : AddEntryNotify(k)
  \/ \E k \in Arriving, op \in {"updateEntry", "deleteEntry"}, u \in RecordActors,
        p \in WrittenPatients, kind \in Kinds :
       \E id \in EntryIdInputs(u, p, kind) :
         ChangeEntryStart(k, op, u, p, kind, id)
  \/ \E k \in Calls : ChangeEntryFindLink(k)
  \/ \E k \in Calls : UpdateEntrySave(k)
  \/ \E k \in Calls : DeleteEntrySave(k)
  \/ \E k \in Calls : ChangeEntryNotify(k)
  \/ \E k \in Arriving, u \in RecordActors :
       \E p \in ReadPatients(u) : ReadAssessmentStart(k, u, p)
  \/ \E k \in Calls : ReadAssessmentFind(k)
  \/ \E k \in Arriving, id \in {r.id : r \in doctorRequests}, s \in Decisions :
       RespondRequestFind(k, "p1", id, s)
  \/ \E k \in Calls : RespondRequestSave(k)
  \/ \E k \in Calls : RespondRequestNotify(k)
  \/ \E k \in Calls : RespondRequestFindRecord(k)
  \/ \E k \in Calls : RespondRequestInsertRecord(k)

RecordSpec == RecordInit /\ [][RecordNext]_vars

----------------------------------------------------------------------------
\* Properties

\* Request k takes a step.
Stepped(k) == calls'[k] # calls[k]

\* Request k arrives and runs up to its first operation on a collection.
Arrives(k, op) == calls[k].pc = "idle" /\ calls'[k].op = op

\* No request other than those of K has arrived.
OnlyCalls(K) == \A c \in Calls \ K : calls[c].pc = "idle"

SamePair(r1, r2) == r1.doctor = r2.doctor /\ r1.patient = r2.patient
SameLink(r1, r2) == r1.doctor = r2.doctor /\ r1.receptionAgent = r2.receptionAgent

Notification(type, recipient, sender) ==
  [type |-> type, recipient |-> recipient, sender |-> sender]

\* C1: in every reachable state the store holds at most one DoctorRequest per
\* (doctor, patient) pair and at most one DoctorReceptionAgent per
\* (doctor, receptionAgent) pair.
C1_OneRecordPerPair ==
  /\ \A r1, r2 \in doctorRequests : SamePair(r1, r2) => r1 = r2
  /\ \A r1, r2 \in doctorReceptionAgents : SameLink(r1, r2) => r1 = r2

\* Two sends for one pair raced: one inserted, the index refused the other.
C1_Witness ==
  \E j, k \in Calls :
    /\ j # k
    /\ calls[j].op = "sendRequest" /\ calls[k].op = "sendRequest"
    /\ calls[j].actor = calls[k].actor /\ calls[j].target = calls[k].target
    /\ calls[j].res = 201 /\ calls[k].res = 500
    /\ \E r \in doctorRequests :
         r.doctor = calls[j].actor /\ r.patient = calls[j].target

\* C2: of two accept calls by the patient on the same pending DoctorRequest,
\* exactly one succeeds and the other is answered 404; the doctor gets exactly
\* one acceptance notification and the patient has at most one MedicalRecord.
C2_AcceptOnce ==
  \A j, k \in Calls :
    ( /\ j # k
      /\ OnlyCalls({j, k})
      /\ calls[j].op = "respondRequest" /\ calls[k].op = "respondRequest"
      /\ calls[j].pc = "done" /\ calls[k].pc = "done"
      /\ calls[j].actor = calls[k].actor /\ Role(calls[j].actor) = "Patient"
      /\ calls[j].id = calls[k].id
      /\ calls[j].decision = "accepted" /\ calls[k].decision = "accepted"
      /\ (calls[j].res # 404 \/ calls[k].res # 404) )
    => /\ {calls[j].res, calls[k].res} = {200, 404}
       /\ \A r \in doctorRequests :
            r.id = calls[j].id =>
              CopiesIn(Notification("request_accepted", r.doctor, r.patient),
                       notifications) = 1
       /\ Cardinality({m \in medicalRecords : m.patient = calls[j].actor}) <= 1

\* The record a respond call was made for, in either collection.
RespondedRecords(c) ==
  IF c.op = "respondRequest"
  THEN {r \in doctorRequests : r.id = c.id}
  ELSE {r \in doctorReceptionAgents : r.id = c.id}

\* C3: of an accept call and a reject call by the target on the same pending
\* DoctorRequest or DoctorReceptionAgent, only one takes effect: the other is
\* answered 404 or 400, the final status is the decision of the call that
\* succeeded, and the initiator is notified of that decision only.
C3_OneDecision ==
  \A j, k \in Calls :
    ( /\ j # k
      /\ OnlyCalls({j, k})
      /\ calls[j].op \in {"respondRequest", "respondAgent"}
      /\ calls[k].op = calls[j].op
      /\ calls[j].pc = "done" /\ calls[k].pc = "done"
      /\ calls[j].actor = calls[k].actor
      /\ Role(calls[j].actor) =
           (IF calls[j].op = "respondRequest" THEN "Patient" ELSE "Reception Agent")
      /\ calls[j].id = calls[k].id
      /\ calls[j].decision = "accepted" /\ calls[k].decision = "rejected"
      /\ (calls[j].res # 404 \/ calls[k].res # 404) )
    => \E w, l \in {j, k} :
         /\ w # l
         /\ calls[w].res = 200 /\ calls[l].res \in {404, 400}
         /\ \A r \in RespondedRecords(calls[w]) :
              /\ r.status = calls[w].decision
              /\ CopiesIn(Notification("request_" \o calls[w].decision,
                                       r.doctor, calls[w].actor), notifications) = 1
              /\ CopiesIn(Notification("request_" \o calls[l].decision,
                                       r.doctor, calls[l].actor), notifications) = 0

\* What a respond call must find: a record with its id, whose target is the
\* caller, and which is pending.
PendingFor(c) ==
  IF c.op = "respondRequest"
  THEN \E r \in doctorRequests :
         r.id = c.id /\ r.patient = c.actor /\ r.status = "pending"
  ELSE \E r \in doctorReceptionAgents :
         r.id = c.id /\ r.receptionAgent = c.actor /\ r.status = "pending"

Written(r2) ==
  \A r \in doctorRequests : r.id = r2.id => r.status # r2.status

Created(r2) == ~HasId(doctorRequests, r2.id)

\* Request k, a respond of r2's patient that found r2 pending, writes its
\* decision.
ByRespond(k, r2) ==
  /\ calls[k].op = "respondRequest" /\ calls[k].pc = "save" /\ Stepped(k)
  /\ calls[k].actor = r2.patient /\ calls[k].doc = r2.id
  /\ calls[k].seen = "pending"
  /\ r2.status = calls[k].decision /\ r2.status \in Decisions
  /\ ~Created(r2)

\* Request k, a send of r2's doctor, inserts r2 pending or, having found it
\* rejected, writes pending.
BySend(k, r2) ==
  /\ calls[k].op = "sendRequest" /\ Stepped(k)
  /\ calls[k].actor = r2.doctor /\ calls[k].target = r2.patient
  /\ r2.status = "pending"
  /\ \/ calls[k].pc = "insert" /\ Created(r2)
     \/ /\ calls[k].pc = "resend" /\ calls[k].doc = r2.id
        /\ calls[k].seen = "rejected" /\ ~Created(r2)

\* Request k, r2's doctor accepting an appointment invitation of r2's
\* patient, inserts r2 accepted or writes accepted.
ByInvitationAccept(k, r2) ==
  /\ calls[k].op = "respondInvitation" /\ Stepped(k)
  /\ calls[k].decision = "accepted"
  /\ calls[k].actor = r2.doctor /\ calls[k].target = r2.patient
  /\ \E i \in appointmentInvitations :
       i.id = calls[k].id /\ i.doctor = r2.doctor /\ i.patient = r2.patient
  /\ r2.status = "accepted"
  /\ \/ calls[k].pc = "insertRequest" /\ Created(r2)
     \/ calls[k].pc = "saveRequest" /\ calls[k].doc = r2.id /\ ~Created(r2)

C6_AcceptedForever ==
  [][\A r \in doctorRequests :
       r.status = "accepted" =>
         \E r2 \in doctorRequests' : r2.id = r.id /\ r2.status = "accepted"
    ]_vars

C8_ConflictOnLiveRecord ==
  [][\A k \in Calls :
       /\ ( /\ Arrives(k, "sendRequest") /\ Role(calls'[k].actor) = "Doctor"
            /\ \E r \in doctorRequests :
                 /\ r.doctor = calls'[k].actor /\ r.patient = calls'[k].target
                 /\ r.status \in {"pending", "accepted"} )
          => /\ calls'[k].pc = "done" /\ calls'[k].res = 400
             /\ UNCHANGED store
       /\ ( /\ Arrives(k, "inviteAgent") /\ Role(calls'[k].actor) = "Doctor"
            /\ \E r \in doctorReceptionAgents :
                 /\ r.doctor = calls'[k].actor /\ r.receptionAgent = calls'[k].target
                 /\ r.status \in {"pending", "accepted"} )
          => /\ calls'[k].pc = "done" /\ calls'[k].res = 400
             /\ UNCHANGED store
    ]_vars

\* A doctor's send for a patient who had accepted was answered 400, and an
\* invite for an agent whose invitation is pending was answered 400.
C8_Witness ==
  /\ \E k \in Calls :
       /\ calls[k].op = "sendRequest" /\ calls[k].res = 400
       /\ \E r \in doctorRequests :
            /\ r.doctor = calls[k].actor /\ r.patient = calls[k].target
            /\ r.status = "accepted"
  /\ \E k \in Calls :
       /\ calls[k].op = "inviteAgent" /\ calls[k].res = 400
       /\ \E r \in doctorReceptionAgents :
            /\ r.doctor = calls[k].actor /\ r.receptionAgent = calls[k].target
            /\ r.status = "pending"

\* The records of the pair a create call was made for.
CreatedRecords(c) ==
  IF c.op = "sendRequest"
  THEN {r \in doctorRequests : r.doctor = c.actor /\ r.patient = c.target}
  ELSE {r \in doctorReceptionAgents : r.doctor = c.actor /\ r.receptionAgent = c.target}

\* C9: of two create calls by one doctor for one target, made while the pair
\* has no record, exactly one succeeds (201) and inserts one pending record;
\* the other is answered 400, not 500.
C9_OneCreateOneConflict ==
  \A j, k \in Calls :
    ( /\ j # k
      /\ OnlyCalls({j, k})
      /\ calls[j].op \in {"sendRequest", "inviteAgent"}
      /\ calls[k].op = calls[j].op
      /\ calls[j].pc = "done" /\ calls[k].pc = "done"
      /\ calls[j].actor = calls[k].actor /\ calls[j].target = calls[k].target
      /\ (calls[j].res \in {201, 500} \/ calls[k].res \in {201, 500}) )
    => /\ {calls[j].res, calls[k].res} = {201, 400}
       /\ \E r \in CreatedRecords(calls[j]) :
            CreatedRecords(calls[j]) = {r} /\ r.status = "pending"

\* After the step: the record a create call loaded, and the records of its
\* pair.
ResentRecords(c) ==
  IF c.op = "sendRequest"
  THEN {r \in doctorRequests' : r.id = c.doc}
  ELSE {r \in doctorReceptionAgents' : r.id = c.doc}

PairRecordsAfter(c) ==
  IF c.op = "sendRequest"
  THEN {r \in doctorRequests' : r.doctor = c.actor /\ r.patient = c.target}
  ELSE {r \in doctorReceptionAgents' : r.doctor = c.actor /\ r.receptionAgent = c.target}

\* C10: a create call of a doctor for a target with whom the doctor has a
\* rejected record sets that record to pending (same record, still the only
\* one of the pair), saves one request notification for the target and is
\* answered 200.
C10_ResendReopens ==
  [][\A k \in Calls :
       /\ ( /\ Arrives(k, "sendRequest") \/ Arrives(k, "inviteAgent")
            /\ Role(calls'[k].actor) = "Doctor"
            /\ \E r \in CreatedRecords(calls'[k]) : r.status = "rejected" )
          => /\ calls'[k].pc = "resend"
             /\ \E r \in CreatedRecords(calls'[k]) : calls'[k].doc = r.id
       /\ ( /\ calls[k].op \in {"sendRequest", "inviteAgent"}
            /\ calls[k].pc = "resend" /\ Stepped(k) )
          => /\ calls'[k].pc = "notifyResent"
             /\ \E r \in ResentRecords(calls[k]) : r.status = "pending"
             /\ PairRecordsAfter(calls[k]) = ResentRecords(calls[k])
       /\ ( /\ calls[k].op \in {"sendRequest", "inviteAgent"}
            /\ calls[k].pc = "notifyResent" /\ Stepped(k) )
          => /\ calls'[k].res = 200
             /\ notifications' = notifications (+)
                  SetToBag({Notification("doctor_request", calls[k].target, calls[k].actor)})
    ]_vars

----------------------------------------------------------------------------
\* Medical records

\* Request k has been answered with this code.
Answered(k, op, code) ==
  calls[k].op = op /\ calls[k].pc = "done" /\ calls[k].res = code

\* C11: after a patient's accept of a DoctorRequest is answered 200 a
\* MedicalRecord of that patient exists, and no step of the respond handler
\* changes a sub-collection of a record the patient already had.
C11_AcceptEnsuresRecord ==
  [][\A k \in Calls :
       calls'[k].op = "respondRequest" =>
         /\ (calls'[k].pc = "done" /\ calls'[k].res = 200 /\
               calls'[k].decision = "accepted")
              => \E m \in medicalRecords' : m.patient = calls'[k].actor
         /\ Stepped(k) =>
              \A m \in medicalRecords : m.patient = calls'[k].actor =>
                \E m2 \in medicalRecords' :
                  m2.patient = m.patient /\ Entries(m2) = Entries(m)]_vars

\* An accept was answered 200 for a patient whose record, written before the
\* request arrived, still holds the same entries.
C11_Witness ==
  \E k \in Calls :
    /\ Answered(k, "respondRequest", 200) /\ calls[k].decision = "accepted"
    /\ \E m \in medicalRecords :
         m.patient = calls[k].actor /\ Entries(m) = Entries(WrittenRecord)

\* C12: in every reachable state there is at most one MedicalRecord per
\* patient, and no step of an accept, a read or a sub-entry write removes the
\* record of a patient.
C12_OneRecordKept ==
  [][/\ \A m1, m2 \in medicalRecords : m1.patient = m2.patient => m1 = m2
     /\ \A m1, m2 \in medicalRecords' : m1.patient = m2.patient => m1 = m2
     /\ \A m \in medicalRecords :
          \E m2 \in medicalRecords' : m2.patient = m.patient]_vars

\* An accept and an add both found no record; the accept created it and the
\* add's insert was refused.
C12_Witness ==
  \E j, k \in Calls :
    /\ Answered(j, "respondRequest", 200) /\ Answered(k, "addEntry", 500)
    /\ calls[j].actor = calls[k].target
    /\ Cardinality({m \in medicalRecords : m.patient = calls[k].target}) = 1

\* Request k, in progress, is answered.
Returns(k) == calls[k].pc \notin {"idle", "done"} /\ calls'[k].pc = "done"

\* C13: a doctor's read of a record or add to any sub-collection succeeds if
\* and only if an accepted DoctorRequest (doctor = actor, patient = patientId)
\* exists when the call is made: without one it is answered 403 and the store
\* is unchanged, with one it is not refused and is answered 200 or 201.
C13_DoctorAccess ==
  [][\A k \in Calls :
       (calls'[k].op \in {"readRecord", "addEntry"} /\
        Role(calls'[k].actor) = "Doctor") =>
         /\ calls[k].pc = "idle" =>
              IF AcceptedRequest(calls'[k].actor, calls'[k].target)
              THEN calls'[k].res \in {0, 200, 201}
              ELSE /\ calls'[k].pc = "done" /\ calls'[k].res = 403
                   /\ store' = store
         /\ Returns(k) => calls'[k].res \in {200, 201}]_vars

\* Some doctor has an accepted delegation to agent a and an accepted
\* DoctorRequest to patient p.
DelegatedAccess(a, p) ==
  \E d \in Doctors : AcceptedInvitation(a, d) /\ AcceptedRequest(d, p)

\* C14: a reception agent's read of a record succeeds if and only if some
\* doctor has an accepted delegation to the agent and an accepted
\* DoctorRequest to the patient: without such a doctor the read is answered
\* 403, with one it is not refused and is answered 200.
C14_AgentRead ==
  [][\A k \in Calls :
       (calls'[k].op = "readRecord" /\
        Role(calls'[k].actor) = "Reception Agent") =>
         /\ calls[k].pc = "idle" => calls'[k].pc = "findAccess"
         /\ calls[k].pc = "findAccess" /\ Stepped(k) =>
              IF DelegatedAccess(calls[k].actor, calls[k].target)
              THEN calls'[k].res = 0
              ELSE calls'[k].pc = "done" /\ calls'[k].res = 403
         /\ Returns(k) /\ calls[k].pc # "findAccess" => calls'[k].res = 200]_vars

\* C15: a reception agent's read of a patient's health assessment is answered
\* 403 unless some doctor has an accepted delegation to the agent and an
\* accepted DoctorRequest to the patient.
C15_AgentAssessment ==
  [][\A k \in Calls :
       (/\ calls[k].pc = "idle" /\ calls'[k].op = "readAssessment"
        /\ Role(calls'[k].actor) = "Reception Agent"
        /\ ~DelegatedAccess(calls'[k].actor, calls'[k].target))
       => calls'[k].pc = "done" /\ calls'[k].res = 403]_vars

\* The entries of a sub-collection of p's record in the collection records.
EntriesOf(records, p, kind) ==
  UNION {{m[kind][i] : i \in DOMAIN m[kind]} :
           m \in {x \in records : x.patient = p}}

\* C16: a reception agent's add of an appointment for patient P in the name of
\* doctor D succeeds if and only if D has an accepted delegation to the agent
\* and an accepted DoctorRequest to P, and the appointment it appends has
\* doctor D; the agent's add to any other sub-collection is answered 403 and
\* changes nothing.
C16_AgentAdd ==
  [][\A k \in Calls :
       (calls'[k].op = "addEntry" /\
        Role(calls'[k].actor) = "Reception Agent") =>
         LET c == calls'[k] IN
         /\ calls[k].pc = "idle" =>
              IF /\ c.kind = "appointments" /\ c.via # NoUser
                 /\ AcceptedInvitation(c.actor, c.via)
              THEN c.pc = "findAccess"
              ELSE /\ c.pc = "done" /\ store' = store
                   /\ c.res = IF c.kind = "appointments" /\ c.via = NoUser
                              THEN 400 ELSE 403
         /\ calls[k].pc = "findAccess" /\ Stepped(k) =>
              IF AcceptedRequest(c.via, c.target) THEN c.res = 0
              ELSE c.pc = "done" /\ c.res = 403 /\ store' = store
         /\ Stepped(k) =>
              \A kind \in Kinds :
                \A e \in EntriesOf(medicalRecords', c.target, kind) \
                         EntriesOf(medicalRecords, c.target, kind) :
                  kind = "appointments" /\ e.doctor = c.via
         /\ Returns(k) /\ calls[k].pc # "findAccess" => c.res = 201]_vars

\* C17: in each sub-collection a doctor's update or delete goes through only
\* for the doctor the entry names as its author; a doctor who is not the
\* author, with or without an accepted DoctorRequest to the patient, is
\* answered 403 with the store unchanged, and a doctor's step changes or
\* removes no entry of another author.
C17_AuthorOnly ==
  [][\A k \in Calls :
       (calls'[k].op \in {"updateEntry", "deleteEntry"} /\
        Role(calls'[k].actor) = "Doctor") =>
         LET c == calls'[k]
             held == {e \in EntriesOf(medicalRecords, c.target, c.kind) :
                        e.id = c.id}
         IN
         /\ calls[k].pc = "idle" =>
              /\ (\E e \in held : e.doctor # c.actor) =>
                   c.pc = "done" /\ c.res = 403 /\ store' = store
              /\ c.pc # "done" => \E e \in held : e.doctor = c.actor
         /\ Stepped(k) =>
              \A kind \in Kinds :
                /\ \A e \in EntriesOf(medicalRecords, c.target, kind) \
                            EntriesOf(medicalRecords', c.target, kind) :
                     e.doctor = c.actor /\ e.id = c.id
                /\ \A e \in EntriesOf(medicalRecords', c.target, kind) \
                            EntriesOf(medicalRecords, c.target, kind) :
                     e.doctor = c.actor /\ e.id = c.id
         /\ c.pc = "done" /\ c.res = 200 => c.via = c.actor]_vars

\* Doctor d2, who has an accepted DoctorRequest to the patient, was answered
\* 403 on an entry that d1 wrote and that is still stored.
C17_Witness ==
  \E k \in Calls :
    /\ calls[k].op \in {"updateEntry", "deleteEntry"}
    /\ calls[k].pc = "done" /\ calls[k].res = 403
    /\ calls[k].actor = "d2" /\ AcceptedRequest("d2", calls[k].target)
    /\ \E e \in EntriesOf(medicalRecords, calls[k].target, calls[k].kind) :
         e.id = calls[k].id /\ e.doctor = "d1"

\* C18: a reception agent's update or delete of an appointment is written
\* only if, at the write, the appointment's doctor has an accepted delegation
\* to the agent and an accepted DoctorRequest to the patient; the agent's
\* update or delete in the other four sub-collections is answered 403 and
\* changes nothing.
C18_AgentChange ==
  [][\A k \in Calls :
       (calls'[k].op \in {"updateEntry", "deleteEntry"} /\
        Role(calls'[k].actor) = "Reception Agent") =>
         LET c == calls'[k] IN
         /\ (calls[k].pc = "idle" /\ c.kind # "appointments") =>
              c.pc = "done" /\ c.res = 403 /\ store' = store
         /\ (calls[k].pc = "save" /\ c.pc = "notify") =>
              /\ c.kind = "appointments"
              /\ AcceptedInvitation(c.actor, c.via)
              /\ AcceptedRequest(c.via, c.target)]_vars

\* C19: a patient's read of a record succeeds if and only if patientId is the
\* patient's own id (otherwise 403), and every add, update or delete by a
\* patient, in any sub-collection, is answered 403 and changes nothing.
C19_PatientAccess ==
  [][\A k \in Calls :
       Role(calls'[k].actor) = "Patient" =>
         LET c == calls'[k] IN
         /\ (c.op = "readRecord" /\ calls[k].pc = "idle") =>
              IF c.target = c.actor THEN c.res \in {0, 200}
              ELSE c.pc = "done" /\ c.res = 403 /\ store' = store
         /\ (c.op = "readRecord" /\ Returns(k)) => c.res = 200
         /\ (c.op \in {"addEntry", "updateEntry", "deleteEntry"} /\
             calls[k].pc = "idle") =>
              c.pc = "done" /\ c.res = 403 /\ store' = store]_vars

\* The requests on a medical record and on a patient's health assessment.
RecordOps ==
  {"readRecord", "addEntry", "updateEntry", "deleteEntry", "readAssessment"}

\* C20: every read, add, update and delete on a medical record and every read
\* of a patient's health assessment by an Admin is answered 403 on arrival
\* and leaves the store unchanged, whatever relationship records exist.
C20_AdminForbidden ==
  [][\A k \in Calls :
       (/\ calls[k].pc = "idle" /\ calls'[k].op \in RecordOps
        /\ Role(calls'[k].actor) = "Admin")
       => calls'[k].pc = "done" /\ calls'[k].res = 403 /\ store' = store]_vars

\* The admin was refused a write to and an assessment read of a patient who
\* has a written record and doctors with accepted requests.
C20_Witness ==
  \E j, k \in Calls :
    /\ calls[j].actor = "adm" /\ calls[k].actor = "adm"
    /\ calls[j].op \in {"addEntry", "updateEntry", "deleteEntry"}
    /\ calls[j].pc = "done" /\ calls[j].res = 403
    /\ Answered(k, "readAssessment", 403)
    /\ calls[j].target = calls[k].target
    /\ \E d \in Doctors : AcceptedRequest(d, calls[k].target)
    /\ \E m \in medicalRecords :
         m.patient = calls[k].target /\ m.prescriptions # <<>>

\* The positions of a handler at its role and relationship gates, before its
\* first write.
GatePcs == {"idle", "findAccess", "findLink"}

\* C21: a request answered 403 has left the store unchanged: it is refused at
\* a gate, with no write in that step, and every step that brought it to a
\* gate started at a gate and wrote nothing.
C21_ForbiddenWritesNothing ==
  [][\A k \in Calls :
       /\ (Stepped(k) /\ calls'[k].pc = "done" /\ calls'[k].res = 403) =>
            calls[k].pc \in GatePcs /\ store' = store
       /\ (Stepped(k) /\ calls'[k].pc \in GatePcs) =>
            calls[k].pc \in GatePcs /\ store' = store]_vars

\* A reception agent's add passed the delegation lookup and was refused at the
\* doctor's access lookup, while the patient's record holds entries.
C21_Witness ==
  \E k \in Calls :
    /\ Answered(k, "addEntry", 403)
    /\ Role(calls[k].actor) = "Reception Agent"
    /\ AcceptedInvitation(calls[k].actor, calls[k].via)
    /\ \E m \in medicalRecords :
         m.patient = calls[k].target /\ m.appointments # <<>>

\* C22: a MedicalRecord is created only by a step of a sub-entry write or of
\* a request's accept; no step of a read of a medical record changes the set
\* of MedicalRecord documents.
C22_ReadCreatesNothing ==
  [][/\ \A k \in Calls :
          (Stepped(k) /\ calls'[k].op = "readRecord") =>
            medicalRecords' = medicalRecords
     /\ (\E m \in medicalRecords' :
           \A m0 \in medicalRecords : m0.patient # m.patient) =>
          \E k \in Calls :
            /\ Stepped(k)
            /\ \/ calls[k].op = "addEntry"
               \/ calls[k].op \in {"respondRequest", "respondInvitation"} /\
                  calls[k].decision = "accepted"]_vars

----------------------------------------------------------------------------
\* Appointment invitations

\* The appointments that accepts of invitation id have pushed to the record
\* of its patient.
InvitationAppointments(inv) ==
  UNION {{i \in DOMAIN m.appointments : m.appointments[i].invitation = inv.id} :
           m \in {x \in medicalRecords : x.patient = inv.patient}}

\* C23: under any interleaving of the doctor's respond calls on an
\* invitation, at most one takes effect: at most one is answered 200, the
\* patient's record holds at most one appointment of the invitation, and a
\* respond that is not answered 200 has pushed none.
C23_OneRespondTakesEffect ==
  \A inv \in appointmentInvitations :
    /\ Cardinality({k \in Calls : /\ Answered(k, "respondInvitation", 200)
                                  /\ calls[k].id = inv.id}) <= 1
    /\ Cardinality(InvitationAppointments(inv)) <= 1

----------------------------------------------------------------------------
\* The risk calculation service on the questionnaires of one patient
\*
\* Patient p1, who has no assessment, submits one questionnaire.  The
\* questionnaires vary the answers around a person to whom no rule applies:
\* every choice of at most two conditions and of all but at most two, at a
\* normal and at a high body mass; every age at and below each age limit with
\* every gender and every measure; every way of life at two ages and two
\* measures, with no condition, with high blood pressure, and with high blood
\* pressure, heart disease and high cholesterol.

\* The ages at each limit of a rule (45, 55, 65, 75), the age below it, and 30.
Ages == {30, 44, 45, 54, 55, 64, 65, 74, 75}

\* <<height, weight>>: weight / (height/100)^2 is below 25 (22.9, 2.2), is 25,
\* lies in (25, 30), is 30, lies in (30, 35), is 35, lies above 35.
Measures ==
  {<<175, 70>>, <<300, 20>>, <<160, 64>>, <<175, 90>>, <<100, 30>>,
   <<170, 87>>, <<100, 35>>, <<170, 110>>}

FewOrMostConditions ==
  {present \in SUBSET Conditions :
     Cardinality(present) <= 2 \/ Cardinality(present) >= Cardinality(Conditions) - 2}

ByConditions ==
  {Answers(30, "Female", m[1], m[2], "Never", "Regularly", "Never", present) :
     m \in {<<175, 70>>, <<170, 110>>}, present \in FewOrMostConditions}

ByAgeAndMeasure ==
  {Answers(age, gender, m[1], m[2], "Never", "Regularly", "Never", {}) :
     age \in Ages, gender \in Genders, m \in Measures}

ByWayOfLife ==
  {Answers(age, "Male", m[1], m[2], smoking, exercise, alcohol, present) :
     age \in {30, 70}, m \in {<<175, 70>>, <<175, 90>>},
     smoking \in SmokingStatuses, exercise \in ExerciseFrequencies,
     alcohol \in AlcoholConsumptions,
     present \in {{}, {"hasHighBloodPressure"},
                  {"hasHighBloodPressure", "hasHeartDisease",
                   "hasHighCholesterol"}}}

Questionnaires == ByConditions \cup ByAgeAndMeasure \cup ByWayOfLife

RiskInit ==
  /\ doctorRequests = {}
  /\ doctorReceptionAgents = {}
  /\ nextAgentLinkId = 1
  /\ appointmentInvitations = {}
  /\ medicalRecords = {}
  /\ nextEntryId = 1
  /\ healthAssessments = {}
  /\ notifications = EmptyBag
  /\ users = Accounts
  /\ calls = [k \in Calls |-> IdleCall]

RiskNext ==
  \/ \E k \in Arriving \cap {1}, body \in Questionnaires :
       SubmitAssessmentStart(k, "p1", body)
  \/ \E k \in Calls : SubmitAssessmentSave(k)

RiskSpec == RiskInit /\ [][RiskNext]_vars

\* The requests that have computed the predictions of their questionnaire.
Assessed ==
  {k \in Calls : calls[k].op = "submitAssessment" /\ calls[k].predictions # NoData}

\* C24: when the questionnaire has hasDiabetes = true, the diabetes
\* prediction is exactly score 100, risk "Very High" and the single factor
\* of the diagnosed patient; no other diabetes rule contributes.
C24_DiagnosedIsVeryHigh ==
  \A k \in Assessed :
    calls[k].body.hasDiabetes =>
      calls[k].predictions.diabetes =
        [risk |-> "Very High", score |-> 100, factors |-> <<AlreadyDiagnosed>>]

\* The assessment of a diagnosed patient to whom at least three rules of
\* the diabetes function apply is stored with the single factor.
C24_Witness ==
  \E h \in healthAssessments :
    /\ h.data.hasDiabetes
    /\ Len(DiabetesRules(h.data)) >= 3
    /\ h.predictions.diabetes.factors = <<AlreadyDiagnosed>>

\* The diseases of calculateAllRisks.
Diseases == {"stroke", "heartDisease", "diabetes"}

\* C26: the risk level of every prediction is determined by its score
\* alone: "Very High" iff the score is at least 70, "High" iff it is 50 to
\* 69, "Moderate" iff it is 30 to 49, and "Low" iff it is at most 29.
C26_LevelFollowsScore ==
  \A k \in Assessed, d \in Diseases :
    LET p == calls[k].predictions[d] IN
      /\ p.risk = "Very High" <=> p.score >= 70
      /\ p.risk = "High" <=> p.score \in 50..69
      /\ p.risk = "Moderate" <=> p.score \in 30..49
      /\ p.risk = "Low" <=> p.score <= 29

\* A stored assessment whose stroke score is 69 and "High", one point below
\* the highest level, beside a "Very High" and a "Moderate" prediction.
C26_Witness ==
  \E h \in healthAssessments :
    /\ h.predictions.stroke.score = 69
    /\ h.predictions.stroke.risk = "High"
    /\ h.predictions.heartDisease.risk = "Very High"
    /\ h.predictions.diabetes.risk = "Moderate"

\* The limits that weight / (height/100)^2 reaches as a quotient of integers:
\* weight / (height/100)^2 >= limit iff 10000 * weight >= limit * height^2.
ReachedExactly(data) ==
  {limit \in BMILimits : 10000 * data.weight >= limit * data.height * data.height}

\* The string that each function pushes for each limit of its BMI rules.
BMIFactor ==
  [stroke |->
     (25 :> "Overweight (BMI 25-30) moderately increases risk") @@
     (30 :> "Obesity (BMI >=30) increases stroke risk"),
   heartDisease |->
     (25 :> "Being overweight increases heart disease risk") @@
     (30 :> "Obesity strains the cardiovascular system"),
   diabetes |->
     (25 :> "Being overweight (BMI 25-30) increases diabetes risk") @@
     (30 :> "Obesity (BMI 30-35) significantly increases diabetes risk") @@
     (35 :> "Severe obesity (BMI >=35) greatly increases diabetes risk")]

\* The limits whose BMI string is among the factors of a prediction.
BMIContributions(d, prediction) ==
  {limit \in DOMAIN BMIFactor[d] :
     \E i \in 1..Len(prediction.factors) :
       prediction.factors[i] = BMIFactor[d][limit]}

\* The bracket of a disease that holds a body mass index reaching the limits
\* of reached: none below 25, else the highest limit of the disease reached.
Bracket(d, reached) ==
  {limit \in DOMAIN BMIFactor[d] \cap reached :
     \A other \in DOMAIN BMIFactor[d] \cap reached : other <= limit}

\* The predictions that the functions compute from their rules: all but
\* the diabetes prediction of a diagnosed patient.
Scanned(data) ==
  IF data.hasDiabetes THEN Diseases \ {"diabetes"} ELSE Diseases

\* C28: for every height and weight in the validated ranges, no BMI rule
\* of any disease contributes when weight / (height/100)^2 is below 25, and
\* exactly the one bracket of each disease that holds the quotient
\* contributes when it is at or above 25.
C28_BMIBracketContributes ==
  \A k \in Assessed : \A d \in Scanned(calls[k].body) :
    BMIContributions(d, calls[k].predictions[d]) =
      Bracket(d, ReachedExactly(calls[k].body))

\* The rules of disease d that a questionnaire triggers when its body mass
\* index is the exact quotient, with their points and strings in scan order.
Triggered(d, data) ==
  IF d = "stroke" THEN StrokeTable(data, ReachedExactly(data))
  ELSE IF d = "heartDisease" THEN HeartDiseaseTable(data, ReachedExactly(data))
  ELSE DiabetesTable(data, ReachedExactly(data))

\* C25: for every questionnaire in the validated ranges each of the three
\* scores is an integer in [0, 100], and a score that the rules of its
\* disease determine equals min(100, sum of the points of the triggered
\* rules of that disease).
C25_ScoreIsCappedSum ==
  \A k \in Assessed :
    /\ \A d \in Diseases : calls[k].predictions[d].score \in 0..100
    /\ \A d \in Scanned(calls[k].body) :
         LET sum == Points(Triggered(d, calls[k].body))
         IN calls[k].predictions[d].score = IF sum < 100 THEN sum ELSE 100

\* The weight that a stroke rule adds, or 0.
Weight(condition, weight) == IF condition THEN weight ELSE 0

\* The sum of the weights of the stroke rules that a questionnaire triggers,
\* the body mass index being the exact quotient.
StrokeWeights(data) ==
    (IF data.age >= 75 THEN 30 ELSE IF data.age >= 65 THEN 20
     ELSE IF data.age >= 55 THEN 10 ELSE 0)
  + Weight(data.hasHighBloodPressure, 25)
  + Weight(data.hasDiabetes, 15)
  + Weight(data.hadStroke, 35)
  + Weight(data.hasHeartDisease, 20)
  + Weight(data.hasHighCholesterol, 10)
  + (IF data.smokingStatus = "Current" THEN 15
     ELSE IF data.smokingStatus = "Former" THEN 5 ELSE 0)
  + Weight(data.exerciseFrequency \in {"Never", "Rarely"}, 8)
  + (IF 10000 * data.weight >= 30 * data.height * data.height THEN 12
     ELSE IF 10000 * data.weight >= 25 * data.height * data.height THEN 6
     ELSE 0)
  + Weight(data.familyStroke, 10)
  + Weight(data.numbness \/ data.dizziness, 15)

\* C27: the stroke score of a questionnaire is the sum of the fixed weights
\* of exactly the stroke rules it triggers, capped at 100; for age 70, high
\* blood pressure, a current smoker who never exercises, height 175 and
\* weight 90 and no other factor it is 74 with risk "Very High".
C27_StrokeScoreIsWeightSum ==
  \A k \in Assessed :
    LET data == calls[k].body
        stroke == calls[k].predictions.stroke
    IN /\ stroke.score =
            IF StrokeWeights(data) < 100 THEN StrokeWeights(data) ELSE 100
       /\ data = Answers(70, "Male", 175, 90, "Current", "Never", "Never",
                         {"hasHighBloodPressure"})
            => stroke.score = 74 /\ stroke.risk = "Very High"

\* The string each function pushes when its factor list is empty.
Placeholder ==
  [stroke |-> "No major risk factors identified. Maintain healthy lifestyle.",
   heartDisease |-> "No major risk factors identified. Keep up healthy habits.",
   diabetes |-> "Low risk. Maintain healthy weight and active lifestyle."]

\* C29: for each disease and every questionnaire outside the diabetes
\* short-circuit, the factor list holds exactly one string per triggered
\* rule in the scan order of the disease's rules, and it is the single
\* placeholder string iff no rule is triggered, iff the score is 0.
C29_OneFactorPerTriggeredRule ==
  \A k \in Assessed : \A d \in Scanned(calls[k].body) :
    LET triggered == Triggered(d, calls[k].body)
        p == calls[k].predictions[d]
    IN /\ triggered # <<>> => p.factors = Pushed(triggered)
       /\ p.factors = <<Placeholder[d]>> <=> triggered = <<>>
       /\ p.factors = <<Placeholder[d]>> <=> p.score = 0

----------------------------------------------------------------------------
\* The submissions of one patient
\*
\* Patient p1 has no assessment, or the one that a submission of
\* NoRiskAnswers has stored.  p1 submits questionnaires that differ from it
\* in one answer, one whose age is 0 and one whose height the schema
\* refuses; doctor d1 submits too.

OlderAnswers == [NoRiskAnswers EXCEPT !.age = 70]
HeavierAnswers == [NoRiskAnswers EXCEPT !.weight = 90]
WithoutAge == [NoRiskAnswers EXCEPT !.age = 0]
TooShort == [NoRiskAnswers EXCEPT !.height = 40]

\* req.body.  The role gate answers before the body is read.
Submissions(u) ==
  IF Role(u) = "Patient"
  THEN {OlderAnswers, HeavierAnswers, WithoutAge, TooShort}
  ELSE {NoRiskAnswers}

AssessmentInit ==
  /\ doctorRequests = {}
  /\ doctorReceptionAgents = {}
  /\ nextAgentLinkId = 1
  /\ appointmentInvitations = {}
  /\ medicalRecords = {}
  /\ nextEntryId = 1
  /\ healthAssessments \in {{}, {Assessment("p1", NoRiskAnswers)}}
  /\ notifications = EmptyBag
  /\ users = Accounts
  /\ calls = [k \in Calls |-> IdleCall]

AssessmentNext ==
  \/ \E k \in Arriving, u \in {"p1", "d1"} : \E body \in Submissions(u) :
       SubmitAssessmentStart(k, u, body)
  \/ \E k \in Calls : SubmitAssessmentSave(k)

AssessmentSpec == AssessmentInit /\ [][AssessmentNext]_vars

\* The questionnaires whose submission stored an assessment of patient p:
\* those of the requests answered 201, and the one stored before them.
Stored(p) ==
  {calls[k].body : k \in {j \in Calls : /\ Answered(j, "submitAssessment", 201)
                                        /\ calls[j].actor = p}}
    \cup (IF p = "p1" THEN {NoRiskAnswers} ELSE {})

\* No submission is in flight.
AssessmentsAtRest == \A k \in Calls : calls[k].pc \in {"idle", "done"}

\* C30: after any sequence and any interleaving of submissions by a
\* patient there is at most one HealthAssessment of that patient, its
\* questionnaire is that of one submission as a whole, and its predictions
\* are those of the risk calculation on the stored questionnaire.
C30_OneWholeAssessment ==
  AssessmentsAtRest =>
    \A p \in Patients :
      /\ Cardinality({h \in healthAssessments : h.patient = p}) <= 1
      /\ \A h \in healthAssessments :
           h.patient = p =>
             /\ h.data \in Stored(p)
             /\ h.predictions = calculateAllRisks(h.data)

\* C39: every questionnaire that a patient submits with its fields in the
\* ranges of the schema (age 0 to 150, height 50 to 300, weight 20 to 500,
\* the listed gender, smoking, exercise and alcohol values) is accepted and
\* stored with predictions; a submission with age = 0 is not refused.
C39_InRangeIsAccepted ==
  \A k \in Calls :
    /\ calls[k].op = "submitAssessment" /\ calls[k].pc = "done"
    /\ Role(calls[k].actor) = "Patient"
    /\ SchemaAllows(calls[k].body)
    => /\ calls[k].res = 201
       /\ \E h \in healthAssessments :
            h.patient = calls[k].actor /\ h.predictions # NoData

-----------------------------------------------------------------------------
\* The first writes to a record: PUT /api/doctor/request/:requestId has saved
\* the accepted status and its notification and has not yet looked for the
\* patient's MedicalRecord, while adds for that patient arrive.

\* The number under which the accept is in flight.
AcceptCall == 0

\* The accept of d1's request by p1 after notifyRequestAccepted.
AcceptInFlight ==
  [Load(Goto(NewCall("respondRequest", "p1", NoUser, 1, "accepted"), "findRecord"),
        [id |-> 1, status |-> "pending"])
     EXCEPT !.target = "d1"]

\* The writers of the first entries: the doctor and the doctor's agent.
FirstWriters == {"d1", "a1"}

\* The sub-collections whose first write is followed.
FirstKinds == {"appointments", "prescriptions"}

FirstWriteInit ==
  /\ doctorRequests = InitialRequests("accepted")
  /\ doctorReceptionAgents = InitialAgentLinks("accepted")
  /\ nextAgentLinkId = 2
  /\ appointmentInvitations = {}
  /\ medicalRecords = {}
  /\ nextEntryId = 1
  /\ healthAssessments = {}
  /\ notifications = SetToBag({Notification("request_accepted", "d1", "p1")})
  /\ users = Accounts
  /\ calls = [k \in {AcceptCall} \cup Calls |->
                IF k = AcceptCall THEN AcceptInFlight ELSE IdleCall]

FirstWriteNext ==
  \/ RespondRequestFindRecord(AcceptCall)
  \/ RespondRequestInsertRecord(AcceptCall)
  \/ \E k \in Arriving, u \in FirstWriters, kind \in FirstKinds :
       \E doctorId \in DoctorIdInputs(u, kind) : AddEntryStart(k, u, "p1", kind, doctorId)
  \/ \E k \in Calls : AddEntryFindAccess(k)
  \/ \E k \in Calls : AddEntryFindRecord(k)
  \/ \E k \in Calls : AddEntrySave(k)
  \/ \E k \in Calls : AddEntryNotify(k)

FirstWriteSpec == FirstWriteInit /\ [][FirstWriteNext]_vars

\* The add of request k is one its caller is authorized for: a doctor with an
\* accepted DoctorRequest to the patient, or, for an appointment, an agent
\* naming a doctor who has one and an accepted delegation to the agent.
AuthorizedAdd(k) ==
  /\ calls[k].op = "addEntry"
  /\ Role(calls[k].actor) \in WriterRoles(calls[k].kind)
  /\ IF Role(calls[k].actor) = "Reception Agent"
     THEN /\ calls[k].via # NoUser
          /\ AcceptedInvitation(calls[k].actor, calls[k].via)
          /\ AcceptedRequest(calls[k].via, calls[k].target)
     ELSE AcceptedRequest(calls[k].actor, calls[k].target)

\* The accept in flight has not inserted the patient's record.
AcceptNotInserted == calls[AcceptCall].pc \in {"findRecord", "insertRecord"}

\* C38: when two authorized adds for a patient who has no MedicalRecord yet
\* have both been answered, with no record inserted by anyone else, both are
\* answered 201, the patient has exactly one MedicalRecord, and it holds the
\* entries of both adds and nothing else.
C38_BothFirstAddsKept ==
  \A j, k \in Calls :
    ( /\ j # k
      /\ AcceptNotInserted
      /\ AuthorizedAdd(j) /\ AuthorizedAdd(k)
      /\ calls[j].pc = "done" /\ calls[k].pc = "done"
      /\ calls[j].target = calls[k].target )
    => /\ calls[j].res = 201 /\ calls[k].res = 201
       /\ Cardinality({m \in medicalRecords : m.patient = calls[j].target}) = 1
       /\ \A m \in medicalRecords :
            m.patient = calls[j].target =>
              \A kind \in Kinds :
                Len(m[kind]) = Cardinality({i \in {j, k} : calls[i].kind = kind})

\* C36: in every reachable state every entry of every sub-collection of a
\* patient's MedicalRecord is attributed to a doctor who has an accepted
\* DoctorRequest to that patient.
C36_EntriesOfAcceptedDoctors ==
  \A m \in medicalRecords : \A kind \in Kinds : \A i \in DOMAIN m[kind] :
    AcceptedRequest(m[kind][i].doctor, m.patient)

\* C37: whenever no request is in flight, every accepted
\* AppointmentInvitation has an accepted DoctorRequest of its doctor to its
\* patient, and the patient's MedicalRecord holds the appointment that the
\* acceptance pushed.
C37_AcceptedInvitationIsWhole ==
  AssessmentsAtRest =>
    \A inv \in appointmentInvitations :
      inv.status = "accepted" =>
        /\ AcceptedRequest(inv.doctor, inv.patient)
        /\ InvitationAppointments(inv) # {}

\* The add, update and delete requests on the sub-collections of a record.
RecordMutations == {"addEntry", "updateEntry", "deleteEntry"}

\* The entries that a step puts into a sub-collection of patient p's record.
Appended(p, kind) ==
  EntriesOf(medicalRecords', p, kind) \ EntriesOf(medicalRecords, p, kind)

\* C33 as stated: a step of an add, update or delete request on a
\* sub-collection saves a notification exactly when it answers the request
\* with success, and then exactly one: to the record's patient, of the type
\* of the entry's kind, from the doctor the request holds as the entry's: the
\* one the entry it appended is attributed to, or the one of the entry found
\* under its id.  A request answered with an error has saved none.
C33_OneNotificationPerMutation ==
  [][\A k \in Calls :
       (calls[k].op \in RecordMutations /\ Stepped(k)) =>
         /\ IF calls'[k].pc = "done" /\ calls'[k].res \in {200, 201}
            THEN /\ calls[k].pc = "notify"
                 /\ notifications' = notifications (+)
                      SetToBag({Notification(KindTag(calls[k].kind),
                                             calls[k].target, calls[k].via)})
            ELSE notifications' = notifications
         /\ (calls[k].op = "addEntry" /\ calls'[k].pc = "notify") =>
              \E e \in Appended(calls[k].target, calls[k].kind) :
                /\ Appended(calls[k].target, calls[k].kind) = {e}
                /\ e.doctor = calls[k].via]_vars

\* The agent's delete of a doctor's appointment was answered 200 and the
\* patient has the notification sent in the doctor's name.
C33_Witness ==
  \E k \in Calls :
    /\ Answered(k, "deleteEntry", 200)
    /\ Role(calls[k].actor) = "Reception Agent"
    /\ calls[k].via \in Doctors
    /\ BagIn(Notification("appointment_added", calls[k].target, calls[k].via),
             notifications)

-----------------------------------------------------------------------------
\* createNotification when notification.save() throws: the catch block logs
\* the error and returns null to the handler, which goes on as after a saved
\* notification.

CreateNotificationFails == UNCHANGED notifications

\* A handler that lets the error of the notification through to its own catch.
AddEntryNotifyFails_Surfaced(k) ==
  /\ calls[k].op = "addEntry" /\ calls[k].pc = "notify"
  /\ CreateNotificationFails
  /\ calls' = [calls EXCEPT ![k] = Respond(@, 500)]
  /\ UNCHANGED <<doctorRequests, doctorReceptionAgents, nextAgentLinkId,
                 appointmentInvitations, medicalRecords, nextEntryId,
                 healthAssessments, users>>

AddEntryNotifyFails(k) ==
  /\ calls[k].op = "addEntry" /\ calls[k].pc = "notify"
  /\ CreateNotificationFails
  /\ calls' = [calls EXCEPT ![k] = Respond(@, 201)]
  /\ UNCHANGED <<doctorRequests, doctorReceptionAgents, nextAgentLinkId,
                 appointmentInvitations, medicalRecords, nextEntryId,
                 healthAssessments, users>>

ChangeEntryNotifyFails(k) ==
  /\ calls[k].op \in {"updateEntry", "deleteEntry"} /\ calls[k].pc = "notify"
  /\ CreateNotificationFails
  /\ calls' = [calls EXCEPT ![k] = Respond(@, 200)]
  /\ UNCHANGED <<doctorRequests, doctorReceptionAgents, nextAgentLinkId,
                 appointmentInvitations, medicalRecords, nextEntryId,
                 healthAssessments, users>>

RespondRequestNotifyFails(k) ==
  /\ calls[k].op = "respondRequest" /\ calls[k].pc = "notify"
  /\ CreateNotificationFails
  /\ calls' = [calls EXCEPT ![k] =
       IF calls[k].decision = "accepted" THEN Goto(@, "findRecord") ELSE Respond(@, 200)]
  /\ UNCHANGED <<doctorRequests, doctorReceptionAgents, nextAgentLinkId,
                 appointmentInvitations, medicalRecords, nextEntryId, healthAssessments, users>>

\* d1's request is pending, or accepted beside a pending one of d2.
EmissionInit ==
  /\ \E s1 \in {"pending", "accepted"} :
       /\ doctorRequests =
            RecordRequests(s1, IF s1 = "accepted" THEN "pending" ELSE "none")
       /\ medicalRecords = IF s1 = "accepted" THEN {WrittenRecord} ELSE {}
       /\ nextEntryId = IF s1 = "accepted" THEN 6 ELSE 1
  /\ doctorReceptionAgents = InitialAgentLinks("accepted")
  /\ nextAgentLinkId = 2
  /\ appointmentInvitations = {}
  /\ healthAssessments = {}
  /\ notifications = EmptyBag
  /\ users = Accounts
  /\ calls = [k \in Calls |-> IdleCall]

EmissionNext ==
  \/ \E k \in Arriving, u \in FirstWriters, kind \in FirstKinds :
       \E doctorId \in DoctorIdInputs(u, kind) : AddEntryStart(k, u, "p1", kind, doctorId)
  \/ \E k \in Calls : AddEntryFindAccess(k)
  \/ \E k \in Calls : AddEntryFindRecord(k)
  \/ \E k \in Calls : AddEntrySave(k)
  \/ \E k \in Calls : AddEntryNotify(k)
  \/ \E k \in Calls : AddEntryNotifyFails(k)
  \/ \E k \in Arriving, op \in {"updateEntry", "deleteEntry"}, u \in FirstWriters,
        kind \in FirstKinds :
       \E id \in EntryIdInputs(u, "p1", kind) :
         ChangeEntryStart(k, op, u, "p1", kind, id)
  \/ \E k \in Calls : ChangeEntryFindLink(k)
  \/ \E k \in Calls : UpdateEntrySave(k)
  \/ \E k \in Calls : DeleteEntrySave(k)
  \/ \E k \in Calls : ChangeEntryNotify(k)
  \/ \E k \in Calls : ChangeEntryNotifyFails(k)
  \/ \E k \in Arriving, id \in {r.id : r \in doctorRequests}, s \in Decisions :
       RespondRequestFind(k, "p1", id, s)
  \/ \E k \in Calls : RespondRequestSave(k)
  \/ \E k \in Calls : RespondRequestNotify(k)
  \/ \E k \in Calls : RespondRequestNotifyFails(k)
  \/ \E k \in Calls : RespondRequestFindRecord(k)
  \/ \E k \in Calls : RespondRequestInsertRecord(k)

EmissionSpec == EmissionInit /\ [][EmissionNext]_vars

\* Request k is at its createNotification and the step leaves it without
\* having saved a notification.
NotificationLost(k) ==
  calls[k].pc = "notify" /\ Stepped(k) /\ notifications' = notifications

\* C31: when the notification of a respond to a DoctorRequest or of an add,
\* update or delete on a medical record cannot be saved, the step changes
\* nothing in the store, the request goes on exactly as after a saved
\* notification (an add is answered 201, an update, a delete and a reject
\* 200, an accept goes on to the patient's record), and the request does
\* not come back to its notification.
C31_LostNotificationIsSilent ==
  [][\A k \in Calls :
       NotificationLost(k) =>
         /\ store' = store
         /\ calls'[k] =
              CASE calls[k].op = "addEntry" -> Respond(calls[k], 201)
                [] calls[k].op \in {"updateEntry", "deleteEntry"} ->
                     Respond(calls[k], 200)
                [] calls[k].op = "respondRequest" ->
                     IF calls[k].decision = "accepted"
                     THEN Goto(calls[k], "findRecord")
                     ELSE Respond(calls[k], 200)
         /\ calls'[k].pc # "notify"]_vars

\* An add was answered 201, its entry is in the record, and the patient has
\* no notification of it.
C31_Witness ==
  \E k \in Calls :
    /\ Answered(k, "addEntry", 201)
    /\ \E e \in EntriesOf(medicalRecords, calls[k].target, calls[k].kind) :
         /\ e \notin EntriesOf({WrittenRecord}, calls[k].target, calls[k].kind)
         /\ e.doctor = calls[k].via
    /\ ~BagIn(Notification(KindTag(calls[k].kind), calls[k].target, calls[k].via),
              notifications)

\* C33: a step of an add, update or delete request on a sub-collection saves
\* a notification only when it answers the request with success, and then
\* exactly one, unless createNotification could not save it: to the record's
\* patient, of the type of the entry's kind, from the doctor the entry is
\* attributed to.  A request answered with an error has saved none.
C33_OneNotificationUnlessLost ==
  [][\A k \in Calls :
       (calls[k].op \in RecordMutations /\ Stepped(k)) =>
         /\ IF calls'[k].pc = "done" /\ calls'[k].res \in {200, 201}
            THEN /\ calls[k].pc = "notify"
                 /\ \/ notifications' = notifications (+)
                         SetToBag({Notification(KindTag(calls[k].kind),
                                                calls[k].target, calls[k].via)})
                    \/ notifications' = notifications
            ELSE notifications' = notifications
         /\ (calls[k].op = "addEntry" /\ calls'[k].pc = "notify") =>
              \E e \in Appended(calls[k].target, calls[k].kind) :
                /\ Appended(calls[k].target, calls[k].kind) = {e}
                /\ e.doctor = calls[k].via]_vars

-----------------------------------------------------------------------------
\* The notification inbox: /api/notifications.  Here the documents of the
\* Notification collection carry their _id and their read flag.

\* A stored notification: read is false when createNotification saves it.
InboxDoc(id, recipient, sender, read) ==
  [id |-> id, type |-> "doctor_request", recipient |-> recipient,
   sender |-> sender, read |-> read]

\* A fresh ObjectId: one more than the notifications saved so far, those
\* deleted since included.
NewNotificationId ==
  Cardinality(BagToSet(notifications)) +
  Cardinality({k \in Calls : Answered(k, "deleteNotification", 200)}) + 1

\* A filter on _id alone.
OwnNotification_AnyRecipient(n, id, u) == n.id = id

\* {_id: req.params.notificationId, recipient: req.user.userId}
OwnNotification(n, id, u) == n.id = id /\ n.recipient = u

\* createNotification at the end of a request of sender that notifies
\* recipient.
CreateNotification(k, sender, recipient) ==
  /\ CanStart(k)
  /\ notifications' = notifications (+)
       SetToBag({InboxDoc(NewNotificationId, recipient, sender, FALSE)})
  /\ calls' = [calls EXCEPT ![k] =
       Respond(NewCall("createNotification", sender, recipient, NoId, "none"), 200)]
  /\ UNCHANGED <<doctorRequests, doctorReceptionAgents, nextAgentLinkId,
                 appointmentInvitations, medicalRecords, nextEntryId,
                 healthAssessments, users>>

\* GET /: Notification.find({recipient}), then countDocuments({recipient,
\* read: false}).
ListNotificationsFind(k, u) ==
  /\ CanStart(k)
  /\ calls' = [calls EXCEPT ![k] =
       Goto(NewCall("listNotifications", u, NoUser, NoId, "none"), "count")]
  /\ UNCHANGED store

ListNotificationsCount(k) ==
  /\ calls[k].op = "listNotifications" /\ calls[k].pc = "count"
  /\ calls' = [calls EXCEPT ![k] = Respond(@, 200)]
  /\ UNCHANGED store

\* PUT /:notificationId/read: findOneAndUpdate(filter, {read: true})
MarkRead(k, u, id) ==
  /\ CanStart(k)
  /\ LET c == NewCall("markRead", u, NoUser, id, "none")
         found == FindOne({n \in BagToSet(notifications) : OwnNotification(n, id, u)})
     IN /\ notifications' =
             SetToBag({IF n \in found THEN [n EXCEPT !.read = TRUE] ELSE n :
                         n \in BagToSet(notifications)})
        /\ calls' = [calls EXCEPT ![k] =
             IF found = {} THEN Respond(c, 404) ELSE Respond(c, 200)]
  /\ UNCHANGED <<doctorRequests, doctorReceptionAgents, nextAgentLinkId,
                 appointmentInvitations, medicalRecords, nextEntryId,
                 healthAssessments, users>>

\* PUT /mark-all-read: updateMany({recipient, read: false}, {read: true})
MarkAllRead(k, u) ==
  /\ CanStart(k)
  /\ notifications' =
       SetToBag({IF n.recipient = u /\ n.read = FALSE
                 THEN [n EXCEPT !.read = TRUE] ELSE n :
                   n \in BagToSet(notifications)})
  /\ calls' = [calls EXCEPT ![k] =
       Respond(NewCall("markAllRead", u, NoUser, NoId, "none"), 200)]
  /\ UNCHANGED <<doctorRequests, doctorReceptionAgents, nextAgentLinkId,
                 appointmentInvitations, medicalRecords, nextEntryId,
                 healthAssessments, users>>

\* DELETE /:notificationId: findOneAndDelete(filter)
DeleteNotification(k, u, id) ==
  /\ CanStart(k)
  /\ LET c == NewCall("deleteNotification", u, NoUser, id, "none")
         found == FindOne({n \in BagToSet(notifications) : OwnNotification(n, id, u)})
     IN /\ notifications' = SetToBag(BagToSet(notifications) \ found)
        /\ calls' = [calls EXCEPT ![k] =
             IF found = {} THEN Respond(c, 404) ELSE Respond(c, 200)]
  /\ UNCHANGED <<doctorRequests, doctorReceptionAgents, nextAgentLinkId,
                 appointmentInvitations, medicalRecords, nextEntryId,
                 healthAssessments, users>>

\* The users of the inbox.
InboxUsers == {"p1", "d1"}

\* The inboxes at the start: p1 has an unread and a read notification from
\* d1, and d1 has an unread one from p1 or none.
InitialInboxes ==
  {{InboxDoc(1, "p1", "d1", FALSE), InboxDoc(2, "p1", "d1", TRUE)},
   {InboxDoc(1, "p1", "d1", FALSE), InboxDoc(2, "p1", "d1", TRUE),
    InboxDoc(3, "d1", "p1", FALSE)}}

\* :notificationId: the _id of a stored notification, or of none.
NotificationIdInputs ==
  {n.id : n \in BagToSet(notifications)} \cup {NewNotificationId}

InboxInit ==
  /\ doctorRequests = InitialRequests("accepted")
  /\ doctorReceptionAgents = {}
  /\ nextAgentLinkId = 1
  /\ appointmentInvitations = {}
  /\ medicalRecords = {NewRecord("p1")}
  /\ nextEntryId = 1
  /\ healthAssessments = {}
  /\ \E inbox \in InitialInboxes : notifications = SetToBag(inbox)
  /\ users = Accounts
  /\ calls = [k \in Calls |-> IdleCall]

InboxNext ==
  \/ \E k \in Arriving, u \in InboxUsers : CreateNotification(k, u, CHOOSE r \in InboxUsers : r # u)
  \/ \E k \in Arriving, u \in InboxUsers : ListNotificationsFind(k, u)
  \/ \E k \in Calls : ListNotificationsCount(k)
  \/ \E k \in Arriving, u \in InboxUsers, id \in NotificationIdInputs : MarkRead(k, u, id)
  \/ \E k \in Arriving, u \in InboxUsers : MarkAllRead(k, u)
  \/ \E k \in Arriving, u \in InboxUsers, id \in NotificationIdInputs :
       DeleteNotification(k, u, id)

InboxSpec == InboxInit /\ [][InboxNext]_vars

\* The stored notifications of this _id after a step.
InboxAfter(id) == {n \in BagToSet(notifications') : n.id = id}

\* C34: a step changes a stored notification only by setting its read flag
\* from false to true, and only as the mark-read of that notification or the
\* mark-all-read of its recipient; a step removes a notification only as the
\* delete of that notification by its recipient.  A mark-read or delete of a
\* notification by a user who is not its recipient is answered 404 and
\* changes no notification.
C34_InboxOwnedByRecipient ==
  [][/\ \A n \in BagToSet(notifications) :
          InboxAfter(n.id) # {n} =>
            \E k \in Calls :
              /\ calls[k].pc = "idle" /\ calls'[k].pc = "done"
              /\ calls'[k].res = 200
              /\ calls'[k].actor = n.recipient
              /\ IF InboxAfter(n.id) = {}
                 THEN Arrives(k, "deleteNotification") /\ calls'[k].id = n.id
                 ELSE /\ n.read = FALSE
                      /\ InboxAfter(n.id) = {[n EXCEPT !.read = TRUE]}
                      /\ \/ Arrives(k, "markRead") /\ calls'[k].id = n.id
                         \/ Arrives(k, "markAllRead")
     /\ \A k \in Calls :
          ( /\ Arrives(k, "markRead") \/ Arrives(k, "deleteNotification")
            /\ ~\E n \in BagToSet(notifications) :
                  n.id = calls'[k].id /\ n.recipient = calls'[k].actor )
          => calls'[k].res = 404 /\ notifications' = notifications]_vars

\* A user's mark-read of another user's unread notification was answered 404
\* and the notification is still unread, while its recipient's mark-all-read
\* was answered 200 and left the user's own notification unread.
C34_Witness ==
  \E j, k \in Calls :
    /\ Answered(j, "markRead", 404)
    /\ \E n \in BagToSet(notifications) :
         n.id = calls[j].id /\ n.recipient # calls[j].actor /\ n.read = FALSE
    /\ Answered(k, "markAllRead", 200)
    /\ \E n \in BagToSet(notifications) :
         n.recipient # calls[k].actor /\ n.read = FALSE
    /\ \A n \in BagToSet(notifications) : n.recipient = calls[k].actor => n.read

-----------------------------------------------------------------------------
\* /api/auth: register, login, verify, resend-verification

\* Math.floor(100000 + Math.random() * 900000).toString()
Codes == {"111111", "222222"}

\* User.findOne({email})
UserOf(email) == FindOne({u \in users : u.email = email})

\* user.save() of a loaded account whose verificationCode was assigned.
SetCode(email, code) ==
  {IF u.email = email THEN [u EXCEPT !.code = code] ELSE u : u \in users}

\* POST /register: validation and User.findOne({email}).
RegisterFind(k, body) ==
  /\ CanStart(k)
  /\ LET c == [NewCall("register", NoUser, NoUser, NoId, "none") EXCEPT !.body = body]
         found == UserOf(body.email)
     IN calls' = [calls EXCEPT ![k] =
          IF Missing \in {body.email, body.password, body.confirmPassword}
          THEN Respond(c, 400)
          ELSE IF body.password # body.confirmPassword THEN Respond(c, 400)
          ELSE IF Len(body.password) < 6 THEN Respond(c, 400)
          ELSE IF found = {} THEN Goto(c, "insert")
          ELSE LET u == CHOOSE u \in found : TRUE IN
               IF u.isVerified THEN Respond(c, 400)
               ELSE [Goto(c, "saveCode") EXCEPT !.loaded = u]]
  /\ UNCHANGED store

\* new User({..., isVerified: false, verificationCode}).save(); the email of
\* an account is unique.
RegisterInsert(k) ==
  /\ calls[k].op = "register" /\ calls[k].pc = "insert"
  /\ IF UserOf(calls[k].body.email) # {}
     THEN /\ calls' = [calls EXCEPT ![k] = Respond(@, 500)]
          /\ UNCHANGED users
     ELSE \E code \in Codes :
            /\ users' = users \cup
                 {Account(calls[k].body.email, calls[k].body.password, FALSE, code)}
            /\ calls' = [calls EXCEPT ![k] = Goto(@, "sendNew")]
  /\ UNCHANGED <<doctorRequests, doctorReceptionAgents, nextAgentLinkId,
                 appointmentInvitations, medicalRecords, nextEntryId,
                 healthAssessments, notifications>>

\* sendVerificationEmail for the new account: its result is logged only.
RegisterSendNew(k) ==
  /\ calls[k].op = "register" /\ calls[k].pc = "sendNew"
  /\ \E success \in BOOLEAN :
       calls' = [calls EXCEPT ![k] =
         [Respond(@, 201) EXCEPT !.mail = IF success THEN "sent" ELSE "failed"]]
  /\ UNCHANGED store

\* POST /resend-verification: User.findOne({email}).
ResendFind(k, body) ==
  /\ CanStart(k)
  /\ LET c == [NewCall("resendVerification", NoUser, NoUser, NoId, "none")
                 EXCEPT !.body = body]
         found == UserOf(body.email)
     IN calls' = [calls EXCEPT ![k] =
          IF body.email = Missing THEN Respond(c, 400)
          ELSE IF found = {} THEN Respond(c, 404)
          ELSE LET u == CHOOSE u \in found : TRUE IN
               IF u.isVerified THEN Respond(c, 400)
               ELSE [Goto(c, "saveCode") EXCEPT !.loaded = u]]
  /\ UNCHANGED store

\* Register for an unverified account, and resend: a new verificationCode is
\* assigned to the loaded account and saved.
SaveCode(k) ==
  /\ calls[k].op \in {"register", "resendVerification"} /\ calls[k].pc = "saveCode"
  /\ \E code \in Codes : users' = SetCode(calls[k].loaded.email, code)
  /\ calls' = [calls EXCEPT ![k] = Goto(@, "send")]
  /\ UNCHANGED <<doctorRequests, doctorReceptionAgents, nextAgentLinkId,
                 appointmentInvitations, medicalRecords, nextEntryId,
                 healthAssessments, notifications>>

\* sendVerificationEmail; if (!emailResult.success) return res.status(500)
SendCode(k) ==
  /\ calls[k].op \in {"register", "resendVerification"} /\ calls[k].pc = "send"
  /\ \E success \in BOOLEAN :
       calls' = [calls EXCEPT ![k] =
         IF success THEN [Respond(@, 200) EXCEPT !.mail = "sent"]
         ELSE [Respond(@, 500) EXCEPT !.mail = "failed"]]
  /\ UNCHANGED store

\* POST /login: User.findOne({email}) and the isVerified test.
LoginFind(k, body) ==
  /\ CanStart(k)
  /\ LET c == [NewCall("login", NoUser, NoUser, NoId, "none") EXCEPT !.body = body]
         found == UserOf(body.email)
     IN calls' = [calls EXCEPT ![k] =
          IF Missing \in {body.email, body.password} THEN Respond(c, 400)
          ELSE IF found = {} THEN Respond(c, 400)
          ELSE LET u == CHOOSE u \in found : TRUE IN
               IF ~u.isVerified THEN Respond(c, 400)
               ELSE [Goto(c, "compare") EXCEPT !.loaded = u]]
  /\ UNCHANGED store

\* await user.comparePassword(password); jwt.sign({userId, email, role})
LoginCompare(k) ==
  /\ calls[k].op = "login" /\ calls[k].pc = "compare"
  /\ calls' = [calls EXCEPT ![k] =
       IF Hashed(calls[k].body.password) = calls[k].loaded.password
       THEN [Respond(@, 200) EXCEPT !.token = calls[k].loaded.email]
       ELSE Respond(@, 400)]
  /\ UNCHANGED store

\* POST /verify: User.findOne({email, verificationCode,
\* verificationCodeExpires: {$gt: new Date()}}); the ten minutes of the code
\* have passed or not.
VerifyFind(k, body, inTime) ==
  /\ CanStart(k)
  /\ LET c == [NewCall("verify", NoUser, NoUser, NoId, "none") EXCEPT !.body = body]
         found == FindOne({u \in users : /\ u.email = body.email
                                         /\ u.code = body.verificationCode
                                         /\ inTime})
     IN calls' = [calls EXCEPT ![k] =
          IF Missing \in {body.email, body.verificationCode} THEN Respond(c, 400)
          ELSE IF found = {} THEN Respond(c, 400)
          ELSE [Goto(c, "save") EXCEPT !.loaded = CHOOSE u \in found : TRUE]]
  /\ UNCHANGED store

\* user.isVerified = true; user.verificationCode = undefined; user.save();
\* jwt.sign
VerifySave(k) ==
  /\ calls[k].op = "verify" /\ calls[k].pc = "save"
  /\ users' = {IF u.email = calls[k].loaded.email
               THEN [u EXCEPT !.isVerified = TRUE, !.code = Missing]
               ELSE u : u \in users}
  /\ calls' = [calls EXCEPT ![k] =
       [Respond(@, 200) EXCEPT !.token = calls[k].loaded.email]]
  /\ UNCHANGED <<doctorRequests, doctorReceptionAgents, nextAgentLinkId,
                 appointmentInvitations, medicalRecords, nextEntryId,
                 healthAssessments, notifications>>

\* req.body.email: that of the verified account, of the second account, or
\* none.
Emails == {"p1", "p2", Missing}

\* req.body of a register: for either email or none, with the password of
\* the accounts or one of fewer than 6 characters.
RegisterBodies ==
  [email : Emails, password : {"secret1", "abc"}, confirmPassword : {"secret1"}]

\* req.body of a login: the password of the accounts or another one.
LoginBodies == [email : Emails, password : {"secret1", "secret2"}]

VerifyBodies == [email : Emails \ {Missing}, verificationCode : Codes \cup {Missing}]

\* p1 has a verified account; p2 has none, or one that is not verified.
AuthInit ==
  /\ doctorRequests = {}
  /\ doctorReceptionAgents = {}
  /\ nextAgentLinkId = 1
  /\ appointmentInvitations = {}
  /\ medicalRecords = {}
  /\ nextEntryId = 1
  /\ healthAssessments = {}
  /\ notifications = EmptyBag
  /\ users \in {{Account("p1", "secret1", TRUE, Missing)},
                {Account("p1", "secret1", TRUE, Missing),
                 Account("p2", "secret1", FALSE, "111111")}}
  /\ calls = [k \in Calls |-> IdleCall]

AuthNext ==
  \/ \E k \in Arriving, body \in RegisterBodies : RegisterFind(k, body)
  \/ \E k \in Calls : RegisterInsert(k)
  \/ \E k \in Calls : RegisterSendNew(k)
  \/ \E k \in Arriving, body \in [email : Emails] : ResendFind(k, body)
  \/ \E k \in Calls : SaveCode(k)
  \/ \E k \in Calls : SendCode(k)
  \/ \E k \in Arriving, body \in LoginBodies : LoginFind(k, body)
  \/ \E k \in Calls : LoginCompare(k)
  \/ \E k \in Arriving, body \in VerifyBodies, inTime \in BOOLEAN :
       VerifyFind(k, body, inTime)
  \/ \E k \in Calls : VerifySave(k)

AuthSpec == AuthInit /\ [][AuthNext]_vars

\* C32: a register or resend-verification request whose verification email
\* could not be sent is answered with an error, never with success.
C32_FailedEmailIsAnError ==
  \A k \in Calls :
    calls[k].mail = "failed" =>
      calls[k].pc = "done" /\ calls[k].res \notin {200, 201}

\* C35: a login for an account that is not verified is answered 401 at once
\* and with no token, whatever its password; and a step hands out a token
\* only as the save of a verify, or as the password comparison of a login
\* that found the account verified and whose password is the account's.
C35_TokensForVerifiedOnly ==
  [][\A k \in Calls :
       /\ ( /\ Arrives(k, "login")
            /\ \E u \in users : u.email = calls'[k].body.email /\ ~u.isVerified )
          => /\ calls'[k].pc = "done" /\ calls'[k].res = 401
             /\ calls'[k].token = NoUser
       /\ calls'[k].token # calls[k].token =>
            /\ calls[k].token = NoUser /\ calls'[k].res = 200
            /\ \/ calls[k].op = "verify" /\ calls[k].pc = "save"
               \/ /\ calls[k].op = "login" /\ calls[k].pc = "compare"
                  /\ calls[k].loaded.isVerified
                  /\ calls[k].loaded.password = Hashed(calls[k].body.password)]_vars

====
